---- MODULE Spec2Model ----
(***************************************************************************)
(* The asynchronous virtio-block backend of crosvm                         *)
(* (devices/src/virtio/block/asynchronous.rs): the per-chain request       *)
(* tasks, the periodic flusher, the control task that resizes the disk,    *)
(* and the worker threads that run them, as a state machine.               *)
(*                                                                         *)
(* A step of a task is what one poll of its future does: it runs from one  *)
(* await that was pending to the next await that is pending.  Tasks of one *)
(* worker run on one thread; workers run in parallel.                      *)
(***************************************************************************)
EXTENDS Integers, Sequences, FiniteSets, TLC

(***************************************************************************)
(* Bounds of the model.                                                    *)
(***************************************************************************)
MaxChains == 2
MaxResizes == 1
MaxActivations == 2
MaxKicks == 3

(***************************************************************************)
(* Program constants.                                                      *)
(***************************************************************************)
SECTOR_SHIFT == 9
ID_LEN == 20
HEADER_LEN == 16
SEG_LEN == 16
U64_BITS == 64

VIRTIO_BLK_T_IN == 0
VIRTIO_BLK_T_OUT == 1
VIRTIO_BLK_T_FLUSH == 4
VIRTIO_BLK_T_GET_ID == 8
VIRTIO_BLK_T_DISCARD == 11
VIRTIO_BLK_T_WRITE_ZEROES == 13
VIRTIO_BLK_DISCARD_WRITE_ZEROES_FLAG_UNMAP == 1

VIRTIO_BLK_S_OK == 0
VIRTIO_BLK_S_IOERR == 1
VIRTIO_BLK_S_UNSUPP == 2

(***************************************************************************)
(* u64 arithmetic.  A u64 is four 16-bit limbs, least significant first,   *)
(* so that the 64-bit width is kept exactly.  NoneU64 is Option::None.     *)
(***************************************************************************)
LIMB == 256 * 256
NoneU64 == <<>>

U64(n) == <<n % LIMB, (n \div LIMB) % LIMB, 0, 0>>

\* 2^55 * k + n, for k < 512 and n < 2^31: a u64 whose top SECTOR_SHIFT bits are k.
U64Hi(k, n) == <<n % LIMB, (n \div LIMB) % LIMB, 0, k * 128>>

Pow2(n) == IF n = 0 THEN 1 ELSE IF n = 1 THEN 2 ELSE IF n = 2 THEN 4
           ELSE IF n = 3 THEN 8 ELSE IF n = 4 THEN 16 ELSE IF n = 5 THEN 32
           ELSE IF n = 6 THEN 64 ELSE IF n = 7 THEN 128 ELSE IF n = 8 THEN 256
           ELSE IF n = 9 THEN 512 ELSE IF n = 10 THEN 1024 ELSE IF n = 11 THEN 2048
           ELSE IF n = 12 THEN 4096 ELSE IF n = 13 THEN 8192 ELSE IF n = 14 THEN 16384
           ELSE 32768

\* x << rhs on 64 bits for rhs < 16: the bits shifted past bit 63 are lost.
ShlLimb(x, i, rhs) ==
    ((x[i] * Pow2(rhs)) % LIMB) + (IF i > 1 THEN x[i - 1] \div Pow2(16 - rhs) ELSE 0)

WrappingShl(x, rhs) ==
    <<ShlLimb(x, 1, rhs), ShlLimb(x, 2, rhs), ShlLimb(x, 3, rhs), ShlLimb(x, 4, rhs)>>

\* x >> rhs on 64 bits for rhs < 16.
ShrLimb(x, i, rhs) ==
    (x[i] \div Pow2(rhs)) + (IF i < 4 THEN (x[i + 1] % Pow2(rhs)) * Pow2(16 - rhs) ELSE 0)

WrappingShr(x, rhs) ==
    <<ShrLimb(x, 1, rhs), ShrLimb(x, 2, rhs), ShrLimb(x, 3, rhs), ShrLimb(x, 4, rhs)>>

\* u64::checked_shl(rhs): None if and only if rhs is at least the bit width.
CheckedShl(x, rhs) == IF rhs >= U64_BITS THEN NoneU64 ELSE WrappingShl(x, rhs)

\* u64::checked_add: None on overflow past 2^64.
CheckedAdd(a, b) ==
    LET s1 == a[1] + b[1]
        s2 == a[2] + b[2] + (s1 \div LIMB)
        s3 == a[3] + b[3] + (s2 \div LIMB)
        s4 == a[4] + b[4] + (s3 \div LIMB)
    IN  IF s4 >= LIMB THEN NoneU64
        ELSE <<s1 % LIMB, s2 % LIMB, s3 % LIMB, s4>>

\* a > b on u64.
GtU64(a, b) ==
    \/ a[4] > b[4]
    \/ a[4] = b[4] /\ a[3] > b[3]
    \/ a[4] = b[4] /\ a[3] = b[3] /\ a[2] > b[2]
    \/ a[4] = b[4] /\ a[3] = b[3] /\ a[2] = b[2] /\ a[1] > b[1]

\* The value x * 2^SECTOR_SHIFT, as a mathematical integer, needs more than 64 bits.
ShiftOverflows(x) == x[4] \div Pow2(16 - SECTOR_SHIFT) # 0

\* sector * 512 + len > size over the mathematical integers (len, size: u64).
MathBeyond(sector, len, size) ==
    \/ ShiftOverflows(sector)
    \/ LET end == CheckedAdd(WrappingShl(sector, SECTOR_SHIFT), len)
       IN  end = NoneU64 \/ GtU64(end, size)

(***************************************************************************)
(* Requests.  A descriptor chain carries rlen readable bytes (the header,  *)
(* then the data of an OUT or the segments of a DISCARD / WRITE_ZEROES)    *)
(* and wlen writable bytes (the data of an IN or the ID, then the status   *)
(* byte).  type and sector are the header fields.                          *)
(***************************************************************************)
Seg(sector, num_sectors, flags) ==
    [sector |-> sector, num_sectors |-> num_sectors, flags |-> flags]

Req(type, sector, rlen, wlen, segs) ==
    [type |-> type, sector |-> sector, rlen |-> rlen, wlen |-> wlen, segs |-> segs]

\* The sizes of the disk image: 0x1000 at construction, as in the tests.
OriginalSize == U64(4096)
ResizeSizes == {U64(8192), U64(512)}

\* IN and OUT requests: the last sector, past the end, zero-length data, a
\* sector whose shift leaves 64 bits, an end that passes 2^64.
InOutRequests ==
    { Req(VIRTIO_BLK_T_IN, U64(7), HEADER_LEN, 513, <<>>),
      Req(VIRTIO_BLK_T_IN, U64(7), HEADER_LEN, 1025, <<>>),
      Req(VIRTIO_BLK_T_IN, U64(9), HEADER_LEN, 1, <<>>),
      Req(VIRTIO_BLK_T_IN, U64Hi(1, 0), HEADER_LEN, 513, <<>>),
      Req(VIRTIO_BLK_T_IN, U64Hi(0, 0), 8, 513, <<>>),
      Req(VIRTIO_BLK_T_IN, U64(0), HEADER_LEN, 0, <<>>),
      Req(VIRTIO_BLK_T_OUT, U64(7), HEADER_LEN + 512, 1, <<>>),
      Req(VIRTIO_BLK_T_OUT, U64(7), HEADER_LEN + 1024, 1, <<>>),
      Req(VIRTIO_BLK_T_OUT, U64(9), HEADER_LEN, 1, <<>>),
      Req(VIRTIO_BLK_T_OUT, U64Hi(1, 1), HEADER_LEN + 512, 1, <<>>),
      Req(VIRTIO_BLK_T_OUT, <<65535, 65535, 65535, 127>>, HEADER_LEN + 1024, 1, <<>>) }

OtherRequests ==
    { Req(VIRTIO_BLK_T_FLUSH, U64(0), HEADER_LEN, 1, <<>>),
      Req(VIRTIO_BLK_T_GET_ID, U64(0), HEADER_LEN, 1 + ID_LEN, <<>>),
      Req(VIRTIO_BLK_T_GET_ID, U64(0), HEADER_LEN, 1, <<>>),
      Req(VIRTIO_BLK_T_GET_ID, U64(0), HEADER_LEN, 11, <<>>),
      Req(5, U64(0), HEADER_LEN, 1, <<>>) }

SegRequests ==
    { Req(VIRTIO_BLK_T_DISCARD, U64(0), HEADER_LEN + SEG_LEN, 1,
          <<Seg(U64(0), U64(1), 0)>>),
      Req(VIRTIO_BLK_T_DISCARD, U64(0), HEADER_LEN + SEG_LEN, 1,
          <<Seg(U64(0), U64(1), 1)>>),
      Req(VIRTIO_BLK_T_DISCARD, U64(0), HEADER_LEN + SEG_LEN, 1,
          <<Seg(U64Hi(1, 0), U64(1), 0)>>),
      Req(VIRTIO_BLK_T_WRITE_ZEROES, U64(0), HEADER_LEN + 2 * SEG_LEN, 1,
          <<Seg(U64(0), U64(1), 1), Seg(U64(7), U64(2), 0)>>),
      Req(VIRTIO_BLK_T_WRITE_ZEROES, U64(0), HEADER_LEN + SEG_LEN, 1,
          <<Seg(U64(0), U64(1), 2)>>),
      Req(VIRTIO_BLK_T_WRITE_ZEROES, U64(0), HEADER_LEN + 2 * SEG_LEN, 1,
          <<Seg(U64(0), U64(1), 0), Seg(U64(1), U64(1), 5)>>),
      Req(VIRTIO_BLK_T_DISCARD, U64(0), HEADER_LEN + 2 * SEG_LEN, 1,
          <<Seg(U64(0), U64(1), 0), Seg(U64(2), U64(1), 0)>>),
      Req(VIRTIO_BLK_T_WRITE_ZEROES, U64(0), HEADER_LEN + SEG_LEN, 1,
          <<Seg(U64Hi(2, 1), U64(1), 0)>>) }

AllRequests == InOutRequests \cup OtherRequests \cup SegRequests

\* The requests of the runs that look at tasks in flight together.
BasicRequests ==
    { Req(VIRTIO_BLK_T_IN, U64(7), HEADER_LEN, 513, <<>>),
      Req(VIRTIO_BLK_T_OUT, U64(7), HEADER_LEN + 512, 1, <<>>),
      Req(VIRTIO_BLK_T_OUT, U64(9), HEADER_LEN, 1, <<>>),
      Req(VIRTIO_BLK_T_FLUSH, U64(0), HEADER_LEN, 1, <<>>) }

\* The one request of the runs that look at the locks: a write of a sector.
WriteRequests == { Req(VIRTIO_BLK_T_OUT, U64(7), HEADER_LEN + 512, 1, <<>>) }

Pool(name) ==
    IF name = "all" THEN AllRequests
    ELSE IF name = "write" THEN WriteRequests
    ELSE BasicRequests

NoReq == Req(0, U64(0), 0, 0, <<>>)

(***************************************************************************)
(* State.                                                                  *)
(***************************************************************************)
Queues == {1, 2}
Workers == {1, 2}
ChainIds == 1..MaxChains
\* The id under which the periodic flusher holds a lock.
FLUSHER == 0

VARIABLES
    read_only,        \* BlockAsync::read_only, DiskState::read_only
    id_set,           \* BlockAsync::id / DiskState::id is Some
    worker_per_queue, \* BlockAsync::worker_per_queue (the disk image can be cloned)
    pool,             \* the requests the guest submits in this run
    disk_size,        \* WorkerSharedState::disk_size (BlockAsync::disk_size)
    sparse,           \* WorkerSharedState::sparse
    file_len,         \* the length of the backing file
    sl,               \* the lock on WorkerSharedState
    dl,               \* per worker: the lock on its DiskState
    chains,           \* per chain id: the descriptor chain and its request task
    avail,            \* per queue: chains made available and not yet popped
    evt,              \* per queue: the notification event is signalled
    used,             \* per queue: the used ring, <<chain, used length>>
    intr,             \* per queue: number of trigger_interrupt calls
    armed,            \* per worker: flush_timer_armed
    timer,            \* per worker: the flush timer, "off", "set" or "expired"
    flusher,          \* per worker: where flush_disk is
    ctl,              \* the control task (handle_command_tube with the tube)
    tube_in,          \* commands sent on the control tube, not yet received
    tube_out,         \* replies sent on the control tube
    config_changed,   \* number of signal_config_changed calls
    nresize,          \* number of Resize commands sent so far
    budget,           \* number of chains the guest still submits in this run
    wstate,           \* per worker: "absent", "running", "ok" or "err"
    kill,             \* per worker: the kill event is signalled
    wmsg,             \* per worker: the error run_worker returned, "none" if none
    cloneable,        \* disk_image.try_clone() succeeds
    nqueues,          \* number of queues given to the last activate
    dev_sparse,       \* BlockAsync::sparse
    dev_image,        \* BlockAsync::disk_image is Some
    dev_tube,         \* BlockAsync::control_tube is Some
    dev_id,           \* BlockAsync::id is Some
    worker_threads,   \* BlockAsync::worker_threads, in spawn order
    w_image,          \* per worker: the thread holds a disk handle
    w_tube,           \* per worker: the thread holds the control tube
    rst,              \* the reset call in progress, if any
    reset_ret,        \* what the last reset returned, "none" before the first
    act_ret,          \* how the last activate ended, "none" before the first
    nactivate,        \* number of activate calls so far
    vpc,                   \* where the VCPU thread is in vcpu_loop
    run_mode,              \* vcpu_loop: run_mode
    interrupted_by_signal, \* vcpu_loop: interrupted_by_signal
    from_main_tube,        \* the VcpuControl messages in the channel
    tube_open,             \* the main thread still holds the Sender
    messages,              \* the state loop: collected messages not yet applied
    exit_state,            \* what vcpu_loop returned, "none" while it runs
    last_event,            \* the exit of the last vcpu.run, or why vcpu_loop returned
    signal_pending,        \* the kick signal is pending / immediate_exit is set
    run_kicked,            \* the kick was pending when vcpu.run was entered
    halt_kick,             \* kick_halted_vcpus was called since the last wait
    halted,                \* irq_chip.halted(cpu_id) with no interrupt since
    kick,                  \* the kick the main thread is making, and how many it made
    taken,                 \* ids of the messages taken from the channel, in order
    applied,               \* ids of the messages applied, in order
    use_hypervisor_signals,\* vcpu_loop: use_hypervisor_signals
    split_irqchip,         \* HLT exits reach the loop and the irqchip blocks halted VCPUs
    gdb,                   \* the "gdb" feature is compiled in
    vm_evt,                \* the VmEventTypes the thread sent on vm_evt_wrtube
    cache                  \* the disk file's completed writes that are not on stable
                           \* storage, and what each fsync in progress will put there

vcpuVars == <<vpc, run_mode, interrupted_by_signal, from_main_tube, tube_open, messages,
              exit_state, last_event, signal_pending, run_kicked, halt_kick, halted,
              kick, taken, applied, use_hypervisor_signals, split_irqchip, gdb,
              vm_evt>>
vcpuCfg == <<use_hypervisor_signals, split_irqchip, gdb>>
blkVars == <<read_only, id_set, worker_per_queue, pool, cloneable, nqueues, dev_sparse,
             dev_image, dev_tube, dev_id, worker_threads, w_image, w_tube, rst,
             reset_ret, act_ret, nactivate>>
devVars == <<blkVars, vcpuVars>>
guestVars == <<budget>>
diskVars == <<disk_size, sparse, file_len>>
lockVars == <<sl, dl>>
queueVars == <<chains, avail, evt, used, intr>>
flushVars == <<armed, timer, flusher>>
ctlVars == <<ctl, tube_in, tube_out, config_changed, nresize>>
workerVars == <<wstate, kill, wmsg>>

blockVars == <<blkVars, guestVars, cache, diskVars, lockVars, queueVars, flushVars, ctlVars,
               workerVars>>

vars == <<devVars, guestVars, cache, diskVars, lockVars, queueVars, flushVars, ctlVars, workerVars>>

\* activate: the queues of each worker to spawn, in spawn order.
QueuesPerWorkerIgnoresClone(wpq, cl, nq) ==
    IF wpq THEN [k \in 1..nq |-> {k}] ELSE << 1..nq >>

QueuesPerWorker(wpq, cl, nq) ==
    IF wpq /\ cl THEN [k \in 1..nq |-> {k}] ELSE << 1..nq >>

\* The worker that runs queue q: one worker per queue, or worker 1 for all.
Owner(q) == IF worker_per_queue /\ cloneable THEN q ELSE 1

\* The worker that got the control tube: the first one spawned.
CONTROL_WORKER == 1

FreeChain ==
    [pc |-> "free", q |-> 0, req |-> NoReq, seg |-> 0, op |-> "none",
     nops |-> 0, checked |-> NoneU64, sp |-> FALSE, err |-> "none", status |-> -1,
     status_off |-> -1, nstatus |-> 0, id_bytes |-> 0, logged |-> 0]

FreeLock == [r |-> {}, w |-> FALSE, ww |-> FALSE]

IdleCtl == [pc |-> "recv", new_size |-> NoneU64, resp |-> "none"]

\* The main thread is not in kick_vcpu or kick_all_vcpus; n kicks so far.
IdleKick == [pc |-> "idle", n |-> 0]

\* No reset call is running.
IdleReset == [pc |-> "idle", cur |-> 0, success |-> FALSE, joined |-> 0]

\* No write waits for an fsync and no fsync is in progress.
EmptyCache ==
    [dirty |-> {}, req |-> [c \in ChainIds |-> {}], fl |-> [w \in Workers |-> {}]]

\* No VCPU thread has been spawned.
VcpuOff ==
    /\ vpc = "off"
    /\ run_mode = "Running"
    /\ interrupted_by_signal = FALSE
    /\ from_main_tube = <<>>
    /\ tube_open = FALSE
    /\ messages = <<>>
    /\ exit_state = "none"
    /\ last_event = "none"
    /\ signal_pending = FALSE
    /\ run_kicked = FALSE
    /\ halt_kick = FALSE
    /\ halted = FALSE
    /\ kick = IdleKick
    /\ taken = <<>>
    /\ applied = <<>>
    /\ use_hypervisor_signals = TRUE
    /\ split_irqchip = FALSE
    /\ gdb = FALSE
    /\ vm_evt = <<>>

\* The block device after BlockAsync::new and activate: the workers run, nothing
\* has been submitted.  ros, sps, ids: the values of read_only, sparse, id.is_some().
InitBlock(wpq, p, n, ros, sps, ids) ==
    /\ read_only \in ros
    /\ id_set \in ids
    /\ worker_per_queue = wpq
    /\ pool = p
    /\ budget = n
    /\ disk_size = OriginalSize
    /\ sparse \in sps
    /\ file_len = OriginalSize
    /\ sl = FreeLock
    /\ dl = [w \in Workers |-> FreeLock]
    /\ chains = [c \in ChainIds |-> FreeChain]
    /\ avail = [q \in Queues |-> <<>>]
    /\ evt = [q \in Queues |-> FALSE]
    /\ used = [q \in Queues |-> <<>>]
    /\ intr = [q \in Queues |-> 0]
    /\ armed = [w \in Workers |-> FALSE]
    /\ timer = [w \in Workers |-> "off"]
    /\ flusher = [w \in Workers |-> "wait"]
    /\ ctl = IdleCtl
    /\ tube_in = <<>>
    /\ tube_out = <<>>
    /\ config_changed = 0
    /\ nresize = 0
    /\ wstate = [w \in Workers |-> IF wpq \/ w = 1 THEN "running" ELSE "absent"]
    /\ kill = [w \in Workers |-> FALSE]
    /\ wmsg = [w \in Workers |-> "none"]
    /\ cache = EmptyCache
    /\ cloneable = TRUE
    /\ nqueues = Cardinality(Queues)
    /\ dev_sparse = sparse
    /\ dev_image = FALSE
    /\ dev_tube = FALSE
    /\ dev_id = FALSE
    /\ worker_threads = IF wpq THEN <<1, 2>> ELSE <<1>>
    /\ w_image = [w \in Workers |-> wpq \/ w = 1]
    /\ w_tube = [w \in Workers |-> w = CONTROL_WORKER]
    /\ rst = IdleReset
    /\ reset_ret = "none"
    /\ act_ret = "ok"
    /\ nactivate = 1

\* The block device alone.
InitWith(wpq, p, n, ros, sps, ids) ==
    /\ VcpuOff
    /\ InitBlock(wpq, p, n, ros, sps, ids)

(***************************************************************************)
(* The async reader-writer mutex (cros_async::sync::Mutex): any number of  *)
(* shared holders or one exclusive holder; a waiting writer holds back new *)
(* readers.                                                                *)
(***************************************************************************)
CanRead(l) == ~l.w /\ ~l.ww
CanWrite(l) == ~l.w /\ l.r = {}
AddReader(l, who) == [l EXCEPT !.r = @ \cup {who}]
DropReader(l, who) == [l EXCEPT !.r = @ \ {who}]

(***************************************************************************)
(* execute_request, as the outcome of each of its polls.                   *)
(***************************************************************************)
\* A status that does not tell Unsupported from the other errors.
StatusOfAllIoerr(err) ==
    IF err = "none" THEN VIRTIO_BLK_S_OK ELSE VIRTIO_BLK_S_IOERR

\* ExecuteError::status
StatusOf(err) ==
    IF err = "none" THEN VIRTIO_BLK_S_OK
    ELSE IF err = "Unsupported" THEN VIRTIO_BLK_S_UNSUPP
    ELSE VIRTIO_BLK_S_IOERR

\* check_range: "none" when [io_start, io_start + io_length) is within the disk.
CheckRange(io_start, io_length, dsz) ==
    LET io_end == CheckedAdd(io_start, io_length)
    IN  IF io_end = NoneU64 THEN "OutOfRange"
        ELSE IF GtU64(io_end, dsz) THEN "OutOfRange"
        ELSE "none"

\* What a poll ends with: the request returned (err), or a disk operation is awaited.
Returned(err) == [k |-> "done", err |-> err, op |-> "none", seg |-> 0]
Awaiting(op, seg) == [k |-> "io", err |-> "none", op |-> op, seg |-> seg]

\* A flag check that accepts every flag.
InvalidFlagsNone(flags, valid_flags) == 0

\* flags & !valid_flags, for valid_flags 0 or UNMAP (bit 0).
InvalidFlags(flags, valid_flags) ==
    IF valid_flags = VIRTIO_BLK_DISCARD_WRITE_ZEROES_FLAG_UNMAP
    THEN flags - (flags % 2)
    ELSE flags

\* One pass of the segment loop of DISCARD / WRITE_ZEROES, from segment k on.
SegStep(r, k, dsz) ==
    IF (r.rlen - HEADER_LEN) - (k - 1) * SEG_LEN < SEG_LEN THEN Returned("none")
    ELSE
        LET seg == r.segs[k]
            valid_flags == IF r.type = VIRTIO_BLK_T_WRITE_ZEROES
                           THEN VIRTIO_BLK_DISCARD_WRITE_ZEROES_FLAG_UNMAP ELSE 0
            offset == CheckedShl(seg.sector, SECTOR_SHIFT)
            length == CheckedShl(seg.num_sectors, SECTOR_SHIFT)
        IN  IF InvalidFlags(seg.flags, valid_flags) # 0 THEN Returned("DiscardWriteZeroes")
            ELSE IF offset = NoneU64 THEN Returned("OutOfRange")
            ELSE IF length = NoneU64 THEN Returned("OutOfRange")
            ELSE IF CheckRange(offset, length, dsz) # "none" THEN Returned("OutOfRange")
            ELSE IF r.type = VIRTIO_BLK_T_DISCARD THEN Awaiting("punch_hole", k)
            ELSE Awaiting("write_zeroes", k)

\* The IN and OUT arms up to the disk operation; data_len is the length of the data.
InOutStep(r, data_len, op, dsz) ==
    IF data_len = 0 THEN Returned("none")
    ELSE
        LET offset == CheckedShl(r.sector, SECTOR_SHIFT)
        IN  IF offset = NoneU64 THEN Returned("OutOfRange")
            ELSE IF CheckRange(offset, U64(data_len), dsz) # "none"
                 THEN Returned("OutOfRange")
            ELSE Awaiting(op, 0)

\* A read-only check that refuses OUT only.
ReadOnlyRefusesOut(ro, type) == ro /\ type = VIRTIO_BLK_T_OUT

\* The read-only check on the request type.
ReadOnlyRefuses(ro, type) ==
    ro /\ type # VIRTIO_BLK_T_IN /\ type # VIRTIO_BLK_T_GET_ID

\* A default arm that lets a request of an unknown type succeed.
DefaultArmSucceeds(type) == Returned("none")

\* The default arm of the match on the request type.
DefaultArm(type) == Returned("Unsupported")

\* execute_request from the header read to its first await or its return, with
\* both locks held: ro, idp of the DiskState; dsz, sp of the WorkerSharedState.
Dispatch(r, ro, dsz, sp, idp) ==
    IF r.rlen < HEADER_LEN THEN Returned("Read")
    ELSE IF ReadOnlyRefuses(ro, r.type) THEN Returned("ReadOnly")
    ELSE IF r.type = VIRTIO_BLK_T_IN THEN InOutStep(r, r.wlen - 1, "read", dsz)
    ELSE IF r.type = VIRTIO_BLK_T_OUT THEN InOutStep(r, r.rlen - HEADER_LEN, "write", dsz)
    ELSE IF r.type \in {VIRTIO_BLK_T_DISCARD, VIRTIO_BLK_T_WRITE_ZEROES} THEN
        IF r.type = VIRTIO_BLK_T_DISCARD /\ ~sp THEN Returned("none")
        ELSE SegStep(r, 1, dsz)
    ELSE IF r.type = VIRTIO_BLK_T_FLUSH THEN Awaiting("fsync", 0)
    ELSE IF r.type = VIRTIO_BLK_T_GET_ID THEN
        IF ~idp THEN Returned("Unsupported")
        ELSE IF r.wlen - 1 < ID_LEN THEN Returned("CopyId")
        ELSE Returned("none")
    ELSE DefaultArm(r.type)

\* A segment loop that reports the error of punch_hole.
AfterIoReportsPunchHole(ch, ok, was_armed, timer_ok) ==
    IF ch.op = "read" THEN Returned(IF ok THEN "none" ELSE "ReadIo")
    ELSE IF ch.op = "write" THEN
        IF ~ok THEN Returned("WriteIo")
        ELSE IF ~was_armed /\ ~timer_ok THEN Returned("TimerReset")
        ELSE Returned("none")
    ELSE IF ch.op = "fsync" THEN
        IF ~ok THEN Returned("Flush")
        ELSE IF was_armed /\ ~timer_ok THEN Returned("TimerReset")
        ELSE Returned("none")
    ELSE IF ~ok THEN Returned("DiscardWriteZeroes")
    ELSE SegStep(ch.req, ch.seg + 1, ch.checked)

\* execute_request after its disk operation completed (ok) or failed.
\* was_armed is flush_timer_armed; timer_ok the outcome of reset() or clear().
AfterIo(ch, ok, was_armed, timer_ok) ==
    IF ch.op = "read" THEN Returned(IF ok THEN "none" ELSE "ReadIo")
    ELSE IF ch.op = "write" THEN
        IF ~ok THEN Returned("WriteIo")
        ELSE IF ~was_armed /\ ~timer_ok THEN Returned("TimerReset")
        ELSE Returned("none")
    ELSE IF ch.op = "fsync" THEN
        IF ~ok THEN Returned("Flush")
        ELSE IF was_armed /\ ~timer_ok THEN Returned("TimerReset")
        ELSE Returned("none")
    ELSE IF ch.op = "punch_hole" THEN SegStep(ch.req, ch.seg + 1, ch.checked)
    ELSE IF ~ok THEN Returned("DiscardWriteZeroes")
    ELSE SegStep(ch.req, ch.seg + 1, ch.checked)

\* An OUT arm that arms the timer without setting the flag.
ArmedNotSetByWrite(ch, ok, was_armed, timer_ok) ==
    IF ch.op = "fsync" /\ ok /\ was_armed /\ timer_ok THEN FALSE ELSE was_armed

\* flush_timer_armed after the disk operation of ch completed.
ArmedAfterIo(ch, ok, was_armed, timer_ok) ==
    IF ch.op = "write" /\ ok /\ ~was_armed THEN TRUE
    ELSE IF ch.op = "fsync" /\ ok /\ was_armed /\ timer_ok THEN FALSE
    ELSE was_armed

\* The flush timer after the disk operation of ch completed.
TimerAfterIo(ch, ok, was_armed, timer_ok, t) ==
    IF ch.op = "write" /\ ok /\ ~was_armed /\ timer_ok THEN "set"
    ELSE IF ch.op = "fsync" /\ ok /\ was_armed /\ timer_ok THEN "off"
    ELSE t

(***************************************************************************)
(* process_one_request / process_one_chain.                                *)
(***************************************************************************)
\* A used length that leaves out the bytes of a failed request.
UsedLenZeroOnError(r, err) == IF err = "none" THEN r.wlen ELSE 0

\* The used length process_one_chain reports: available_bytes, or 0 on Err.
UsedLen(r, err) == IF err = "MissingStatus" THEN 0 ELSE r.wlen

\* A process_one_request that writes a status byte whatever happened.
WritesStatusAlways(err) == TRUE

\* process_one_request writes the status byte unless it returned early.
WritesStatus(err) == err # "MissingStatus"

\* A worker that gives up when a request fails.
WorkerFailsOnError(ws, err) == IF err # "none" THEN "err" ELSE ws

\* The state of the worker after a request ended with err: process_one_chain
\* returns nothing, and handle_queue goes on.
WorkerAfterRequest(ws, err) == ws

\* A process_one_request that logs every error of execute_request.
LogsEveryError(err, type) == err \notin {"none", "MissingStatus"}

\* process_one_request logs the error of execute_request unless it is
\* Unsupported(VIRTIO_BLK_T_GET_ID).
LogsError(err, type) ==
    /\ err \notin {"none", "MissingStatus"}
    /\ ~(err = "Unsupported" /\ type = VIRTIO_BLK_T_GET_ID)

\* process_one_chain logs the error process_one_request returns.
LogsFailure(err) == err = "MissingStatus"

\* The bytes of the ID the GET_ID arm put into the data region: all of them,
\* or, when write_all fails, those the region had room for.
IdBytes(r, err) ==
    IF r.type # VIRTIO_BLK_T_GET_ID THEN 0
    ELSE IF err = "none" THEN ID_LEN
    ELSE IF err = "CopyId" THEN r.wlen - 1
    ELSE 0

\* Where the status byte goes: the last of the available_bytes writable bytes.
StatusOffset(available_bytes) == available_bytes - 1

\* The chain record once process_one_request returned with err; dsz is the
\* disk_size execute_request loaded, NoneU64 if it did not run.
Completed(ch, err, dsz) ==
    [ch EXCEPT !.pc = "done", !.err = err, !.op = "none", !.checked = dsz,
               !.status = IF WritesStatus(err) THEN StatusOf(err) ELSE @,
               !.status_off = IF WritesStatus(err) THEN StatusOffset(ch.req.wlen) ELSE @,
               !.nstatus = IF WritesStatus(err) THEN @ + 1 ELSE @,
               !.sp = IF ch.checked = NoneU64 /\ dsz # NoneU64 THEN sparse ELSE @,
               !.id_bytes = IdBytes(ch.req, err),
               !.logged = (IF LogsError(err, ch.req.type) THEN 1 ELSE 0)
                          + (IF LogsFailure(err) THEN 1 ELSE 0)]

\* A used ring kept in the order in which the chains were popped.
AddUsedInPopOrder(ring, c, len) ==
    SelectSeq(ring, LAMBDA e : e[1] < c) \o <<<<c, len>>>> \o
    SelectSeq(ring, LAMBDA e : e[1] > c)

\* A chain put on the used ring twice.
AddUsedTwice(ring, c, len) == Append(Append(ring, <<c, len>>), <<c, len>>)

\* Queue::add_used
AddUsed(ring, c, len) == Append(ring, <<c, len>>)

\* A process_one_chain that leaves the interrupt to a later step.
TriggerInterruptLater(n) == n

\* Queue::trigger_interrupt
TriggerInterrupt(n) == n + 1

(***************************************************************************)
(* Worker threads.                                                         *)
(***************************************************************************)
\* resize runs set_len, allocate and the publication without an await: the
\* thread of the control worker does nothing else meanwhile.
Busy(w) == w = CONTROL_WORKER /\ ctl.pc \in {"locked", "allocate", "publish"}

Runs(w) == wstate[w] = "running" /\ ~Busy(w)

InFlight(c) == chains[c].pc \in {"new", "lock_disk", "lock_shared", "io"}

TasksOf(w) == {c \in ChainIds : InFlight(c) /\ Owner(chains[c].q) = w}

\* The cache after the fsync of request c, or of the flusher of worker w,
\* started: the fsync will flush the writes that have completed by now.
FsyncStarts(ca, by, k) ==
    IF by = "req" THEN [ca EXCEPT !.req[k] = ca.dirty] ELSE [ca EXCEPT !.fl[k] = ca.dirty]

\* The cache after that fsync ended: with ok, what it covered is flushed.
FsyncEnds(ca, by, k, ok) ==
    LET cov == IF by = "req" THEN ca.req[k] ELSE ca.fl[k]
        left == IF by = "req" THEN [ca EXCEPT !.req[k] = {}] ELSE [ca EXCEPT !.fl[k] = {}]
    IN  [left EXCEPT !.dirty = IF ok THEN @ \ cov ELSE @]

\* The cache after the disk operation op of request c ended, and after the
\* request went on to the operation next, if any.
CacheAfter(ca, c, op, ok, next) ==
    LET done == IF op = "write" /\ ok THEN [ca EXCEPT !.dirty = @ \cup {c}]
                ELSE IF op = "fsync" THEN FsyncEnds(ca, "req", c, ok)
                ELSE ca
    IN  IF next = "fsync" THEN FsyncStarts(done, "req", c) ELSE done

\* The cache after worker w ended: its fsyncs in progress are dropped.
CacheAfterExit(ca, w) ==
    [ca EXCEPT !.fl[w] = {},
               !.req = [c \in ChainIds |-> IF c \in TasksOf(w) THEN {} ELSE @[c]]]

\* A return of run_worker that leaves the lock guards of its tasks behind.
ExitWorkerKeepsLocks(w, res) ==
    /\ wstate' = [wstate EXCEPT ![w] = res]
    /\ kill' = [kill EXCEPT ![w] = FALSE]
    /\ chains' = [c \in ChainIds |->
                    IF c \in TasksOf(w)
                    THEN [chains[c] EXCEPT !.pc = "dropped", !.op = "none"]
                    ELSE chains[c]]
    /\ dl' = dl
    /\ sl' = sl
    /\ armed' = [armed EXCEPT ![w] = FALSE]
    /\ timer' = [timer EXCEPT ![w] = "off"]
    /\ flusher' = [flusher EXCEPT ![w] = "stopped"]
    /\ ctl' = IF w = CONTROL_WORKER THEN [IdleCtl EXCEPT !.pc = "stopped"] ELSE ctl
    /\ cache' = CacheAfterExit(cache, w)

\* The Err run_worker returns when the flusher, or the control task, ended
\* with error e.
FlushFailed(e) == "failed to flush a disk: " \o e
ControlFailed(e) == "failed to handle a control request: " \o e
ResampleFailed == "failed to resample a irq value"

\* run_worker returns with res: select5 drops every arm and with it every task,
\* lock guard and timer of the worker.
ExitWorker(w, res) ==
    /\ wstate' = [wstate EXCEPT ![w] = res]
    /\ kill' = [kill EXCEPT ![w] = FALSE]
    /\ chains' = [c \in ChainIds |->
                    IF c \in TasksOf(w)
                    THEN [chains[c] EXCEPT !.pc = "dropped", !.op = "none"]
                    ELSE chains[c]]
    /\ dl' = [dl EXCEPT ![w] = FreeLock]
    /\ sl' = [sl EXCEPT !.r = @ \ TasksOf(w),
                        !.ww = IF w = CONTROL_WORKER THEN FALSE ELSE @]
    /\ armed' = [armed EXCEPT ![w] = FALSE]
    /\ timer' = [timer EXCEPT ![w] = "off"]
    /\ flusher' = [flusher EXCEPT ![w] = "stopped"]
    /\ ctl' = IF w = CONTROL_WORKER THEN [IdleCtl EXCEPT !.pc = "stopped"] ELSE ctl
    /\ cache' = CacheAfterExit(cache, w)

\* WorkerThread::stop signals the kill event; reset stops the workers from the
\* last one spawned to the first, joining each before the next.
Kill(w) ==
    /\ wstate[w] = "running"
    /\ ~kill[w]
    /\ \A v \in Workers : v > w => wstate[v] # "running"
    /\ kill' = [kill EXCEPT ![w] = TRUE]
    /\ UNCHANGED <<devVars, guestVars, cache, diskVars, lockVars, queueVars, flushVars, ctlVars,
                   wstate, wmsg>>

\* The kill arm of select5 finishes.
WorkerExit(w) ==
    /\ Runs(w)
    /\ kill[w]
    /\ ExitWorker(w, "ok")
    /\ UNCHANGED wmsg
    /\ UNCHANGED <<devVars, guestVars, diskVars, avail, evt, used, intr,
                   tube_in, tube_out, config_changed, nresize>>

(***************************************************************************)
(* The guest and handle_queue.                                             *)
(***************************************************************************)
\* The guest makes a chain available on queue q and notifies the device.
GuestAdd(q, r) ==
    /\ q <= nqueues
    /\ wstate[Owner(q)] = "running"
    /\ budget > 0
    /\ budget' = budget - 1
    /\ \E c \in ChainIds :
        /\ chains[c].pc = "free"
        /\ \A d \in ChainIds : d < c => chains[d].pc # "free"
        /\ chains' = [chains EXCEPT ![c] = [FreeChain EXCEPT !.pc = "avail", !.q = q, !.req = r]]
        /\ avail' = [avail EXCEPT ![q] = Append(@, c)]
    /\ evt' = [evt EXCEPT ![q] = TRUE]
    /\ UNCHANGED <<devVars, cache, diskVars, lockVars, used, intr, flushVars, ctlVars, workerVars>>

\* handle_queue: the event fired; pop every available chain and push its task.
HandleQueue(q) ==
    /\ Runs(Owner(q))
    /\ evt[q]
    /\ evt' = [evt EXCEPT ![q] = FALSE]
    /\ chains' = [c \in ChainIds |->
                    IF chains[c].pc = "avail" /\ chains[c].q = q
                    THEN [chains[c] EXCEPT !.pc = "new"]
                    ELSE chains[c]]
    /\ avail' = [avail EXCEPT ![q] = <<>>]
    /\ UNCHANGED <<devVars, guestVars, cache, diskVars, lockVars, used, intr, flushVars, ctlVars, workerVars>>

(***************************************************************************)
(* The request task of a chain.                                            *)
(***************************************************************************)
\* process_one_chain ends: status byte, add_used, trigger_interrupt, and the
\* lock guards of execute_request are dropped.
Finish(c, err, dsz) ==
    LET ch == chains[c]
        w == Owner(ch.q)
    IN  /\ chains' = [chains EXCEPT ![c] = Completed(ch, err, dsz)]
        /\ used' = [used EXCEPT ![ch.q] = AddUsed(@, c, UsedLen(ch.req, err))]
        /\ intr' = [intr EXCEPT ![ch.q] = TriggerInterrupt(@)]
        /\ dl' = [dl EXCEPT ![w] = DropReader(@, c)]
        /\ sl' = DropReader(sl, c)
        /\ wstate' = [wstate EXCEPT ![w] = WorkerAfterRequest(@, err)]

\* A poll of execute_request ended with res, both locks held.
Settle(c, res, dsz) ==
    LET ch == chains[c]
        w == Owner(ch.q)
    IN  IF res.k = "io"
        THEN /\ chains' = [chains EXCEPT ![c] =
                             [ch EXCEPT !.pc = "io", !.op = res.op, !.seg = res.seg,
                                        !.nops = @ + 1, !.checked = dsz,
                                        !.sp = IF ch.checked = NoneU64 THEN sparse ELSE @]]
             /\ dl' = [dl EXCEPT ![w] = AddReader(@, c)]
             /\ sl' = AddReader(sl, c)
             /\ UNCHANGED <<used, intr, wstate>>
        ELSE Finish(c, res.err, dsz)

\* The shared locks execute_request takes before it reads the header.
RequestLocks == {"disk", "shared"}

\* execute_request from the point where the DiskState read lock is granted.
Proceed(c) ==
    LET ch == chains[c]
        w == Owner(ch.q)
    IN  IF "shared" \in RequestLocks /\ ~CanRead(sl)
        THEN /\ chains' = [chains EXCEPT ![c].pc = "lock_shared"]
             /\ dl' = [dl EXCEPT ![w] = AddReader(@, c)]
             /\ UNCHANGED <<sl, used, intr, wstate>>
        ELSE Settle(c, Dispatch(ch.req, read_only, disk_size, sparse, id_set), disk_size)

\* First poll of the task: process_one_request up to its first pending await.
TaskStart(c) ==
    LET ch == chains[c]
        w == Owner(ch.q)
    IN  /\ ch.pc = "new"
        /\ Runs(w)
        /\ IF ch.req.wlen = 0
           THEN Finish(c, "MissingStatus", NoneU64)
           ELSE IF "disk" \in RequestLocks /\ ~CanRead(dl[w])
           THEN /\ chains' = [chains EXCEPT ![c].pc = "lock_disk"]
                /\ UNCHANGED <<dl, sl, used, intr, wstate>>
           ELSE Proceed(c)
        /\ cache' = CacheAfter(cache, c, "none", TRUE, chains'[c].op)
        /\ UNCHANGED <<devVars, guestVars, diskVars, avail, evt, flushVars, ctlVars, kill, wmsg>>

\* disk_state.read_lock() is granted.
TaskLockDisk(c) ==
    LET ch == chains[c]
        w == Owner(ch.q)
    IN  /\ ch.pc = "lock_disk"
        /\ Runs(w)
        /\ CanRead(dl[w])
        /\ Proceed(c)
        /\ cache' = CacheAfter(cache, c, "none", TRUE, chains'[c].op)
        /\ UNCHANGED <<devVars, guestVars, diskVars, avail, evt, flushVars, ctlVars, kill, wmsg>>

\* worker_shared_state.read_lock() is granted.
TaskLockShared(c) ==
    LET ch == chains[c]
        w == Owner(ch.q)
    IN  /\ ch.pc = "lock_shared"
        /\ Runs(w)
        /\ CanRead(sl)
        /\ Settle(c, Dispatch(ch.req, read_only, disk_size, sparse, id_set), disk_size)
        /\ cache' = CacheAfter(cache, c, "none", TRUE, chains'[c].op)
        /\ UNCHANGED <<devVars, guestVars, diskVars, avail, evt, flushVars, ctlVars, kill, wmsg>>

\* The disk operation of the task completes (ok) or fails; timer_ok is the
\* outcome of the timer call the request makes afterwards, if it makes one.
DiskOpDone(c, ok, timer_ok) ==
    LET ch == chains[c]
        w == Owner(ch.q)
    IN  /\ ch.pc = "io"
        /\ Runs(w)
        /\ Settle(c, AfterIo(ch, ok, armed[w], timer_ok), ch.checked)
        /\ armed' = [armed EXCEPT ![w] = ArmedAfterIo(ch, ok, @, timer_ok)]
        /\ timer' = [timer EXCEPT ![w] = TimerAfterIo(ch, ok, armed[w], timer_ok, @)]
        /\ cache' = CacheAfter(cache, c, ch.op, ok, chains'[c].op)
        /\ UNCHANGED <<devVars, guestVars, diskVars, avail, evt, flusher, ctlVars, kill, wmsg>>

(***************************************************************************)
(* flush_disk, the periodic flusher.                                       *)
(***************************************************************************)
\* Sixty seconds pass: the one-shot timer expires.
TimerFire(w) ==
    /\ wstate[w] = "running"
    /\ timer[w] = "set"
    /\ timer' = [timer EXCEPT ![w] = "expired"]
    /\ UNCHANGED <<devVars, guestVars, cache, diskVars, lockVars, queueVars, armed, flusher, ctlVars, workerVars>>

\* Whether flush_disk clears the flag before it asks for the lock and fsyncs.
FlusherClearsFirst == TRUE

TimerResolvesAlways(t) == TRUE

\* timer.wait() of flush_disk resolves once the timer has expired.
TimerResolves(t) == t = "expired"

\* timer.wait() resolves: if armed, clear the flag, then lock and fsync.
FlushWake(w) ==
    /\ Runs(w)
    /\ flusher[w] = "wait"
    /\ TimerResolves(timer[w])
    /\ timer' = [timer EXCEPT ![w] = "off"]
    /\ IF ~armed[w]
       THEN UNCHANGED <<armed, flusher, dl, cache>>
       ELSE /\ armed' = [armed EXCEPT ![w] = IF FlusherClearsFirst THEN FALSE ELSE @]
            /\ IF CanRead(dl[w])
               THEN /\ flusher' = [flusher EXCEPT ![w] = "fsync"]
                    /\ dl' = [dl EXCEPT ![w] = AddReader(@, FLUSHER)]
                    /\ cache' = FsyncStarts(cache, "flusher", w)
               ELSE /\ flusher' = [flusher EXCEPT ![w] = "lock"]
                    /\ UNCHANGED <<dl, cache>>
    /\ UNCHANGED <<devVars, guestVars, diskVars, sl, queueVars, ctlVars, workerVars>>

\* disk_state.read_lock() of flush_disk is granted; fsync is issued.
FlushLock(w) ==
    /\ Runs(w)
    /\ flusher[w] = "lock"
    /\ CanRead(dl[w])
    /\ flusher' = [flusher EXCEPT ![w] = "fsync"]
    /\ dl' = [dl EXCEPT ![w] = AddReader(@, FLUSHER)]
    /\ cache' = FsyncStarts(cache, "flusher", w)
    /\ UNCHANGED <<devVars, guestVars, diskVars, sl, queueVars, armed, timer, ctlVars, workerVars>>

\* The fsync of flush_disk completes: the loop goes on, or FsyncDisk ends the worker.
FlushFsyncDone(w, ok) ==
    /\ Runs(w)
    /\ flusher[w] = "fsync"
    /\ IF ok
       THEN /\ flusher' = [flusher EXCEPT ![w] = "wait"]
            /\ dl' = [dl EXCEPT ![w] = DropReader(@, FLUSHER)]
            /\ cache' = FsyncEnds(cache, "flusher", w, TRUE)
            /\ UNCHANGED <<sl, chains, armed, timer, ctl, workerVars>>
       ELSE /\ ExitWorker(w, "err")
            /\ wmsg' = [wmsg EXCEPT ![w] = FlushFailed("FsyncDisk")]
    /\ UNCHANGED <<devVars, guestVars, diskVars, avail, evt, used, intr,
                   tube_in, tube_out, config_changed, nresize>>

\* timer.wait() fails: FlushTimer ends the worker.
FlushTimerError(w) ==
    /\ Runs(w)
    /\ flusher[w] = "wait"
    /\ ExitWorker(w, "err")
    /\ wmsg' = [wmsg EXCEPT ![w] = FlushFailed("FlushTimer")]
    /\ UNCHANGED <<devVars, guestVars, diskVars, avail, evt, used, intr,
                   tube_in, tube_out, config_changed, nresize>>

\* handle_irq_resample fails: the resample arm of select5 ends the worker.
ResampleError(w) ==
    /\ Runs(w)
    /\ ExitWorker(w, "err")
    /\ wmsg' = [wmsg EXCEPT ![w] = ResampleFailed]
    /\ UNCHANGED <<devVars, guestVars, diskVars, avail, evt, used, intr,
                   tube_in, tube_out, config_changed, nresize>>

(***************************************************************************)
(* handle_command_tube and resize.                                         *)
(***************************************************************************)
\* The controller sends Resize { new_size }.
ControllerSend(n) ==
    /\ nresize < MaxResizes
    /\ wstate[CONTROL_WORKER] = "running"
    /\ nresize' = nresize + 1
    /\ tube_in' = Append(tube_in, n)
    /\ UNCHANGED <<devVars, guestVars, cache, diskVars, lockVars, queueVars, flushVars,
                   ctl, tube_out, config_changed, workerVars>>

\* resize taking the lock of its own DiskState only.
ResizeLocksDiskOnly == {"disk"}

\* The exclusive locks resize takes before it touches the disk.
ResizeLocks == {"disk", "shared"}

\* resize from the point where the exclusive DiskState lock is granted.
ResizeProceed(c0) ==
    IF "shared" \in ResizeLocks /\ ~CanWrite(sl)
    THEN /\ ctl' = [c0 EXCEPT !.pc = "lock_shared"]
         /\ dl' = [dl EXCEPT ![CONTROL_WORKER] = [@ EXCEPT !.w = TRUE, !.ww = FALSE]]
         /\ sl' = [sl EXCEPT !.ww = TRUE]
    ELSE /\ ctl' = [c0 EXCEPT !.pc = "locked"]
         /\ dl' = [dl EXCEPT ![CONTROL_WORKER] = [@ EXCEPT !.w = TRUE, !.ww = FALSE]]
         /\ sl' = [sl EXCEPT !.w = "shared" \in ResizeLocks, !.ww = FALSE]

\* command_tube.next() yields a Resize; resize starts and asks for its locks.
CtlRecv ==
    /\ Runs(CONTROL_WORKER)
    /\ ctl.pc = "recv"
    /\ tube_in # <<>>
    /\ tube_in' = Tail(tube_in)
    /\ LET c0 == [ctl EXCEPT !.new_size = Head(tube_in)]
       IN  IF ~CanWrite(dl[CONTROL_WORKER])
           THEN /\ ctl' = [c0 EXCEPT !.pc = "lock_disk"]
                /\ dl' = [dl EXCEPT ![CONTROL_WORKER].ww = TRUE]
                /\ UNCHANGED sl
           ELSE ResizeProceed(c0)
    /\ UNCHANGED <<devVars, guestVars, cache, diskVars, queueVars, flushVars,
                   tube_out, config_changed, nresize, workerVars>>

\* command_tube.next() fails: ReceivingCommand ends the worker.
CtlRecvError ==
    /\ Runs(CONTROL_WORKER)
    /\ ctl.pc = "recv"
    /\ ExitWorker(CONTROL_WORKER, "err")
    /\ wmsg' = [wmsg EXCEPT ![CONTROL_WORKER] = ControlFailed("ReceivingCommand")]
    /\ UNCHANGED <<devVars, guestVars, diskVars, avail, evt, used, intr,
                   tube_in, tube_out, config_changed, nresize>>

\* disk_state.lock() is granted.
CtlLockDisk ==
    /\ Runs(CONTROL_WORKER)
    /\ ctl.pc = "lock_disk"
    /\ CanWrite(dl[CONTROL_WORKER])
    /\ ResizeProceed(ctl)
    /\ UNCHANGED <<devVars, guestVars, cache, diskVars, queueVars, flushVars,
                   tube_in, tube_out, config_changed, nresize, workerVars>>

\* worker_shared_state.lock() is granted.
CtlLockShared ==
    /\ Runs(CONTROL_WORKER)
    /\ ctl.pc = "lock_shared"
    /\ CanWrite(sl)
    /\ ctl' = [ctl EXCEPT !.pc = "locked"]
    /\ sl' = [sl EXCEPT !.w = TRUE, !.ww = FALSE]
    /\ UNCHANGED <<devVars, guestVars, cache, diskVars, dl, queueVars, flushVars,
                   tube_in, tube_out, config_changed, nresize, workerVars>>

\* A resize that returns with the WorkerSharedState lock still held.
ResizeReturnKeepsShared(resp) ==
    /\ ctl' = [ctl EXCEPT !.pc = "reply", !.resp = resp]
    /\ dl' = [dl EXCEPT ![CONTROL_WORKER].w = FALSE]
    /\ sl' = sl

\* resize returns resp: both guards are dropped, the reply is to be sent.
ResizeReturn(resp) ==
    /\ ctl' = [ctl EXCEPT !.pc = "reply", !.resp = resp]
    /\ dl' = [dl EXCEPT ![CONTROL_WORKER].w = FALSE]
    /\ sl' = [sl EXCEPT !.w = FALSE]

\* A resize that does not look at read_only.
ResizeNeverRefused(ro) == FALSE

\* resize refuses a read-only device before it calls the backend.
ResizeRefused(ro) == ro

\* A resize that stores new_size before set_len has been called.
ResizeSetLenPublishes(ok) ==
    /\ wstate[CONTROL_WORKER] = "running"
    /\ ctl.pc = "locked"
    /\ IF ResizeRefused(read_only)
       THEN ResizeReturn("EROFS") /\ UNCHANGED <<file_len, disk_size>>
       ELSE IF ok
       THEN /\ file_len' = ctl.new_size
            /\ disk_size' = ctl.new_size
            /\ ctl' = [ctl EXCEPT !.pc = "allocate"]
            /\ UNCHANGED lockVars
       ELSE ResizeReturn("EIO") /\ UNCHANGED file_len /\ disk_size' = ctl.new_size
    /\ UNCHANGED <<devVars, guestVars, cache, sparse, queueVars, flushVars,
                   tube_in, tube_out, config_changed, nresize, workerVars>>

\* resize with both locks: the read-only check, then set_len(new_size).
ResizeSetLen(ok) ==
    /\ wstate[CONTROL_WORKER] = "running"
    /\ ctl.pc = "locked"
    /\ IF ResizeRefused(read_only)
       THEN ResizeReturn("EROFS") /\ UNCHANGED file_len
       ELSE IF ok
       THEN /\ file_len' = ctl.new_size
            /\ ctl' = [ctl EXCEPT !.pc = "allocate"]
            /\ UNCHANGED lockVars
       ELSE ResizeReturn("EIO") /\ UNCHANGED file_len
    /\ UNCHANGED <<devVars, guestVars, cache, disk_size, sparse, queueVars, flushVars,
                   tube_in, tube_out, config_changed, nresize, workerVars>>

\* An allocate whose failure still stores new_size.
ResizeAllocatePublishesOnError(ok) ==
    /\ wstate[CONTROL_WORKER] = "running"
    /\ ctl.pc = "allocate"
    /\ IF ok
       THEN ctl' = [ctl EXCEPT !.pc = "publish"] /\ UNCHANGED <<lockVars, diskVars>>
       ELSE /\ ResizeReturn("EIO")
            /\ disk_size' = ctl.new_size
            /\ UNCHANGED <<sparse, file_len>>
    /\ UNCHANGED <<devVars, guestVars, cache, queueVars, flushVars,
                   tube_in, tube_out, config_changed, nresize, workerVars>>

\* allocate(0, new_size).
ResizeAllocate(ok) ==
    /\ wstate[CONTROL_WORKER] = "running"
    /\ ctl.pc = "allocate"
    /\ IF ok
       THEN ctl' = [ctl EXCEPT !.pc = "publish"] /\ UNCHANGED lockVars
       ELSE ResizeReturn("EIO")
    /\ UNCHANGED <<devVars, guestVars, cache, diskVars, queueVars, flushVars,
                   tube_in, tube_out, config_changed, nresize, workerVars>>

\* sparse = false; if get_len() succeeds, store what it returns; return Ok.
ResizePublish(get_len_ok) ==
    /\ wstate[CONTROL_WORKER] = "running"
    /\ ctl.pc = "publish"
    /\ sparse' = FALSE
    /\ disk_size' = IF get_len_ok THEN file_len ELSE disk_size
    /\ ResizeReturn("Ok")
    /\ UNCHANGED <<devVars, guestVars, cache, file_len, queueVars, flushVars,
                   tube_in, tube_out, config_changed, nresize, workerVars>>

\* command_tube.send(resp) completes, then the config change is signalled on
\* Ok; or it fails and SendingResponse ends the worker.
CtlSend(ok) ==
    /\ Runs(CONTROL_WORKER)
    /\ ctl.pc = "reply"
    /\ IF ok
       THEN /\ tube_out' = Append(tube_out, ctl.resp)
            /\ config_changed' = IF ctl.resp = "Ok" THEN config_changed + 1
                                 ELSE config_changed
            /\ ctl' = IdleCtl
            /\ UNCHANGED <<lockVars, chains, flushVars, workerVars, cache>>
       ELSE /\ ExitWorker(CONTROL_WORKER, "err")
            /\ wmsg' = [wmsg EXCEPT ![CONTROL_WORKER] = ControlFailed("SendingResponse")]
            /\ UNCHANGED <<tube_out, config_changed>>
    /\ UNCHANGED <<devVars, guestVars, diskVars, avail, evt, used, intr, tube_in, nresize>>

(***************************************************************************)
(* activate and reset.                                                     *)
(***************************************************************************)
\* The workers activate spawns for nq queues, in spawn order.
Spawned(nq) == 1..Len(QueuesPerWorker(worker_per_queue, cloneable, nq))

\* activate with nq queues.  The id is taken first; without a disk image the
\* call fails there; otherwise the workers are spawned on fresh queues, the
\* first one with the control tube.
Activate(nq) ==
    /\ rst.pc = "idle"
    /\ nactivate < MaxActivations
    /\ nactivate' = nactivate + 1
    /\ dev_id' = FALSE
    /\ IF ~dev_image
       THEN /\ act_ret' = "err"
            /\ UNCHANGED <<read_only, id_set, worker_per_queue, pool, vcpuVars, cloneable, nqueues,
                           dev_sparse, dev_image, dev_tube, worker_threads, w_image,
                           w_tube, rst, reset_ret>>
            /\ UNCHANGED <<sparse, lockVars, queueVars, flushVars, ctl, workerVars, cache>>
       ELSE /\ act_ret' = "ok"
            /\ nqueues' = nq
            /\ id_set' = dev_id
            /\ dev_image' = FALSE
            /\ dev_tube' = FALSE
            /\ worker_threads' = [k \in Spawned(nq) |-> k]
            /\ w_image' = [w \in Workers |-> w \in Spawned(nq)]
            /\ w_tube' = [w \in Workers |-> w = CONTROL_WORKER /\ dev_tube]
            /\ wstate' = [w \in Workers |-> IF w \in Spawned(nq) THEN "running" ELSE "absent"]
            /\ kill' = [w \in Workers |-> FALSE]
            /\ wmsg' = [w \in Workers |-> "none"]
            /\ sparse' = dev_sparse
            /\ sl' = FreeLock
            /\ dl' = [w \in Workers |-> FreeLock]
            /\ chains' = [c \in ChainIds |-> FreeChain]
            /\ avail' = [q \in Queues |-> <<>>]
            /\ evt' = [q \in Queues |-> FALSE]
            /\ used' = [q \in Queues |-> <<>>]
            /\ intr' = [q \in Queues |-> 0]
            /\ armed' = [w \in Workers |-> FALSE]
            /\ timer' = [w \in Workers |-> "off"]
            /\ flusher' = [w \in Workers |-> "wait"]
            /\ ctl' = IF dev_tube THEN IdleCtl ELSE [IdleCtl EXCEPT !.pc = "stopped"]
            /\ cache' = EmptyCache
            /\ UNCHANGED <<read_only, worker_per_queue, pool, vcpuVars, cloneable, dev_sparse,
                           rst, reset_ret>>
    /\ UNCHANGED <<guestVars, disk_size, file_len, tube_in, tube_out, config_changed, nresize>>

\* A reset that forgets the control tube a worker hands back.
TubeBackLost(dev, worker) == dev

\* reset: the control tube of the device after a worker handed back its own.
TubeBack(dev, worker) == dev \/ worker

\* What reset returns.
ResetResultAlwaysTrue(success) == TRUE

ResetResult(success) == success

\* reset pops the last worker thread and stops it: the kill event is
\* signalled and the thread is to be joined; or no thread is left and reset
\* returns.
ResetPop(r) ==
    IF worker_threads = <<>>
    THEN /\ rst' = IdleReset
         /\ reset_ret' = IF ResetResult(r.success) THEN "true" ELSE "false"
         /\ UNCHANGED <<worker_threads, kill, wmsg>>
    ELSE LET w == worker_threads[Len(worker_threads)]
         IN  /\ rst' = [r EXCEPT !.pc = "join", !.cur = w]
             /\ worker_threads' = SubSeq(worker_threads, 1, Len(worker_threads) - 1)
             /\ kill' = [kill EXCEPT ![w] = wstate[w] = "running"]
             /\ UNCHANGED <<reset_ret, wmsg>>

\* reset is called.
ResetBegin ==
    /\ rst.pc = "idle"
    /\ ResetPop([IdleReset EXCEPT !.pc = "pop"])
    /\ UNCHANGED <<read_only, id_set, worker_per_queue, pool, vcpuVars, cloneable, nqueues,
                   dev_sparse, dev_image, dev_tube, dev_id, w_image, w_tube,
                   act_ret, nactivate>>
    /\ UNCHANGED <<guestVars, cache, diskVars, lockVars, queueVars, flushVars, ctlVars, wstate>>

\* The stopped thread has returned: reset takes its disk image and, if it
\* had one, its control tube, and goes on with the next thread.
ResetJoin ==
    /\ rst.pc = "join"
    /\ wstate[rst.cur] \in {"ok", "err"}
    /\ dev_image' = TRUE
    /\ dev_tube' = TubeBack(dev_tube, w_tube[rst.cur])
    /\ w_image' = [w_image EXCEPT ![rst.cur] = FALSE]
    /\ w_tube' = [w_tube EXCEPT ![rst.cur] = FALSE]
    /\ wstate' = [wstate EXCEPT ![rst.cur] = "absent"]
    /\ ResetPop([rst EXCEPT !.pc = "pop", !.success = TRUE, !.joined = @ + 1])
    /\ UNCHANGED <<read_only, id_set, worker_per_queue, pool, vcpuVars, cloneable, nqueues,
                   dev_sparse, dev_id, act_ret, nactivate>>
    /\ UNCHANGED <<guestVars, cache, diskVars, lockVars, queueVars, flushVars, ctlVars>>

(***************************************************************************)
(* vcpu_loop, the loop of one VCPU thread, and the kicks of the main       *)
(* thread.  The hypervisor and the interrupt chip are the environment: a   *)
(* pending kick makes vcpu.run return EINTR when it is entered, and may    *)
(* interrupt a run in progress; kick_halted_vcpus makes the next           *)
(* wait_until_runnable return Interrupted.                                 *)
(***************************************************************************)
VmRunModes == {"Running", "Suspending", "Breakpoint", "Exiting"}

\* The VcpuControl messages: RunState(mode) under the name of its mode.
VcpuControls == VmRunModes \cup {"MakeRT", "GetStates"}

\* The exits of vcpu.run after which the loop goes on.
ContinuingExits == {"Io", "Mmio", "RdMsr", "WrMsr", "IoapicEoi", "IrqWindowOpen",
                    "Hlt", "BusLock", "Unexpected"}

\* The exits whose arm is unimplemented!().
UnimplementedExits == {"Sbi", "RiscvCsr"}

\* What vcpu.run returns: the exits, and the errors by errno.
RunResults == ContinuingExits \cup UnimplementedExits \cup
              {"Shutdown", "FailEntry", "SystemEventShutdown", "SystemEventReset",
               "SystemEventCrash", "Debug", "EINTR", "EAGAIN", "EIO"}

\* An exit dispatch that reports a guest crash as a crash of the VCPU.
ExitStateOfCrashIsCrash(e) ==
    IF e \in {"Shutdown", "SystemEventShutdown"} THEN "Stop"
    ELSE IF e = "SystemEventReset" THEN "Reset"
    ELSE IF e \in {"FailEntry", "EIO", "SystemEventCrash"} THEN "Crash"
    ELSE "none"

\* The ExitState the match on the result of vcpu.run returns, "none" where
\* the arm does not return.
ExitStateOf(e) ==
    IF e \in {"Shutdown", "SystemEventShutdown", "SystemEventCrash"} THEN "Stop"
    ELSE IF e = "SystemEventReset" THEN "Reset"
    ELSE IF e \in {"FailEntry", "EIO"} THEN "Crash"
    ELSE "none"

\* The thread has left vcpu_loop, by a return or by a panic.
VcpuEnded == vpc \in {"returned", "panicked", "exited"}

\* vcpu_loop returns state because of event; the Receiver is dropped.
VcpuReturn(state, event) ==
    /\ vpc' = "returned"
    /\ exit_state' = state
    /\ last_event' = event
    /\ messages' = <<>>

\* A loop head that enters the state loop only after a kick.
EntersStateLoopOnlyIfInterrupted(interrupted, mode) == interrupted

\* The condition under which an iteration starts with the state loop.
EntersStateLoop(interrupted, mode) == interrupted \/ mode # "Running"

\* The head of the loop: the state loop, or straight on to wait_until_runnable.
LoopTop ==
    /\ vpc = "top"
    /\ IF EntersStateLoop(interrupted_by_signal, run_mode)
       THEN /\ vpc' = "try_recv"
            /\ UNCHANGED interrupted_by_signal
       ELSE /\ vpc' = "wait"
            /\ interrupted_by_signal' = FALSE
    /\ UNCHANGED <<run_mode, from_main_tube, tube_open, messages, exit_state, last_event,
                   signal_pending, run_kicked, halt_kick, halted, kick, taken, applied,
                   vm_evt,
                   vcpuCfg, blockVars>>

\* The ids of the messages ms, in order.
Ids(ms) == [i \in 1..Len(ms) |-> ms[i].id]

\* The message just received and every message try_iter still finds.
Collect ==
    /\ messages' = from_main_tube
    /\ from_main_tube' = <<>>
    /\ taken' = taken \o Ids(from_main_tube)
    /\ vpc' = "apply"
    /\ UNCHANGED <<run_mode, interrupted_by_signal, exit_state, last_event>>

\* The state loop is left: interrupted_by_signal = false, then wait_until_runnable.
LeaveStateLoop ==
    /\ vpc' = "wait"
    /\ interrupted_by_signal' = FALSE

\* try_recv at the head of the state loop.
TryRecv ==
    /\ vpc = "try_recv"
    /\ IF from_main_tube # <<>> THEN Collect
       ELSE IF ~tube_open
       THEN /\ VcpuReturn("Crash", "Disconnected")
            /\ UNCHANGED <<run_mode, interrupted_by_signal, from_main_tube, taken>>
       ELSE IF run_mode = "Running"
       THEN /\ LeaveStateLoop
            /\ UNCHANGED <<run_mode, from_main_tube, messages, exit_state, last_event, taken>>
       ELSE /\ vpc' = "recv"
            /\ UNCHANGED <<run_mode, interrupted_by_signal, from_main_tube, messages,
                           exit_state, last_event, taken>>
    /\ UNCHANGED <<tube_open, signal_pending, run_kicked, halt_kick, halted, kick, applied,
                   vm_evt,
                   vcpuCfg, blockVars>>

\* recv returns: a message arrived, or the Sender was dropped.
Recv ==
    /\ vpc = "recv"
    /\ from_main_tube # <<>> \/ ~tube_open
    /\ IF from_main_tube # <<>> THEN Collect
       ELSE /\ VcpuReturn("Crash", "Disconnected")
            /\ UNCHANGED <<run_mode, interrupted_by_signal, from_main_tube, taken>>
    /\ UNCHANGED <<tube_open, signal_pending, run_kicked, halt_kick, halted, kick, applied,
                   vm_evt,
                   vcpuCfg, blockVars>>

\* The messages of the batch still to apply once `break 'state_loop` has run.
AfterBreak(rest) == <<>>

\* One pass of `for msg in messages`: the first message not yet applied.
ApplyMsg ==
    /\ vpc = "apply"
    /\ messages # <<>>
    /\ LET m == Head(messages)
           rest == Tail(messages)
       IN  /\ applied' = Append(applied, m.id)
           /\ IF m.kind = "Running"
              THEN /\ run_mode' = m.kind
                   /\ messages' = AfterBreak(rest)
                   /\ LeaveStateLoop
                   /\ UNCHANGED <<exit_state, last_event>>
              ELSE IF m.kind = "Exiting"
              THEN /\ run_mode' = m.kind
                   /\ VcpuReturn("Stop", "Exiting")
                   /\ UNCHANGED interrupted_by_signal
              ELSE /\ run_mode' = IF m.kind \in VmRunModes THEN m.kind ELSE run_mode
                   /\ messages' = rest
                   /\ vpc' = IF rest = <<>> THEN "try_recv" ELSE "apply"
                   /\ UNCHANGED <<interrupted_by_signal, exit_state, last_event>>
    /\ UNCHANGED <<from_main_tube, tube_open, signal_pending, run_kicked, halt_kick, halted,
                   kick, taken, vm_evt,
                   vcpuCfg, blockVars>>

\* irq_chip.wait_until_runnable returns res.  Interrupted skips the run call;
\* otherwise vcpu.run is entered.  A halted VCPU stays in the call until
\* the main thread kicks it or an interrupt arrives.
WaitUntilRunnable(res) ==
    /\ vpc = "wait"
    /\ res \in {"Runnable", "Interrupted", "Err"}
    /\ res = "Interrupted" <=> halt_kick
    /\ res = "Runnable" => ~halted
    /\ IF res = "Interrupted"
       THEN /\ interrupted_by_signal' = TRUE
            /\ halt_kick' = FALSE
            /\ vpc' = "clear"
            /\ UNCHANGED run_kicked
       ELSE /\ vpc' = "run"
            /\ run_kicked' = signal_pending
            /\ UNCHANGED <<interrupted_by_signal, halt_kick>>
    /\ UNCHANGED <<run_mode, from_main_tube, tube_open, messages, exit_state, last_event,
                   signal_pending, halted, kick, taken, applied, vm_evt,
                   vcpuCfg, blockVars>>

\* A match on the run error that ignores EINTR.
InterruptedAfterRunNever(e) == FALSE

\* A match on the run error that takes EAGAIN for a kick as well.
InterruptedAfterRunOrAgain(e) == e \in {"EINTR", "EAGAIN"}

\* interrupted_by_signal after the match on the result of vcpu.run.
InterruptedAfterRun(e) == e = "EINTR"

\* vcpu.run returns e and the match dispatches it; gdb_ok is the outcome of
\* vcpu_exit_debug where it is compiled in.
RunReturn(e, gdb_ok) ==
    /\ vpc = "run"
    /\ e \in RunResults
    /\ e = "EINTR" => signal_pending
    /\ run_kicked => e = "EINTR"
    /\ e = "Hlt" => split_irqchip
    /\ (~gdb \/ e # "Debug") => gdb_ok
    /\ IF ExitStateOf(e) # "none"
       THEN /\ VcpuReturn(ExitStateOf(e), e)
            /\ UNCHANGED <<run_mode, interrupted_by_signal, halted>>
       ELSE IF e \in UnimplementedExits
       THEN /\ vpc' = "panicked"
            /\ last_event' = e
            /\ messages' = <<>>
            /\ UNCHANGED <<run_mode, interrupted_by_signal, halted, exit_state>>
       ELSE IF e = "Debug" /\ ~gdb_ok
       THEN /\ VcpuReturn("Crash", e)
            /\ UNCHANGED <<run_mode, interrupted_by_signal, halted>>
       ELSE /\ vpc' = "clear"
            /\ last_event' = e
            /\ run_mode' = IF e = "Debug" THEN "Breakpoint" ELSE run_mode
            /\ interrupted_by_signal' = InterruptedAfterRun(e)
            /\ halted' = (halted \/ e = "Hlt")
            /\ UNCHANGED <<messages, exit_state>>
    /\ UNCHANGED <<from_main_tube, tube_open, signal_pending, run_kicked, halt_kick, kick,
                   taken, applied, vm_evt,
                   vcpuCfg, blockVars>>

\* An end of iteration that leaves the kick pending.
PendingAfterClearKept(interrupted, pending) == pending

\* Whether the kick is still pending after clear_signal, or
\* set_immediate_exit(false), which run only for an interrupted iteration.
PendingAfterClear(interrupted, pending) == IF interrupted THEN FALSE ELSE pending

\* The end of the iteration: after a kick, clear_signal (ok or not) or
\* set_immediate_exit(false); then inject_interrupts.
ClearSignal(ok) ==
    /\ vpc = "clear"
    /\ (~interrupted_by_signal \/ ~use_hypervisor_signals) => ok
    /\ IF interrupted_by_signal /\ ~ok
       THEN /\ VcpuReturn("Crash", "ClearSignal")
            /\ UNCHANGED signal_pending
       ELSE /\ vpc' = "top"
            /\ signal_pending' = PendingAfterClear(interrupted_by_signal, signal_pending)
            /\ last_event' = "none"
            /\ UNCHANGED <<messages, exit_state>>
    /\ UNCHANGED <<run_mode, interrupted_by_signal, from_main_tube, tube_open, run_kicked,
                   halt_kick, halted, kick, taken, applied, vm_evt,
                   vcpuCfg, blockVars>>

\* The closure vcpu_fn up to the call of vcpu_loop: a failure of
\* set_vcpu_thread_scheduling or of runnable_vcpu returns Stop.
VcpuSetup(sched_ok, vcpu_ok) ==
    /\ vpc = "spawned"
    /\ IF sched_ok /\ vcpu_ok
       THEN /\ vpc' = "top"
            /\ UNCHANGED <<messages, exit_state, last_event>>
       ELSE VcpuReturn("Stop", "SetupFailed")
    /\ UNCHANGED <<run_mode, interrupted_by_signal, from_main_tube, tube_open,
                   signal_pending, run_kicked, halt_kick, halted, kick, taken, applied,
                   vm_evt, vcpuCfg, blockVars>>

\* A final event that reports every end of the VCPU but a reset as an exit.
FinalEventOfCrashIsExit(state) == IF state = "Reset" THEN "Reset" ELSE "Exit"

\* The VmEventType run_vcpu makes of the ExitState of vcpu_fn.
FinalEventOf(state) ==
    CASE state = "Stop" -> "Exit"
      [] state = "Reset" -> "Reset"
      [] state = "Crash" -> "Crash"
      [] state = "WatchdogReset" -> "WatchdogReset"
      [] state = "GuestPanic" -> "unreachable"

\* run_vcpu sends the final event of the thread, which then ends.
SendFinalEvent ==
    /\ vpc = "returned"
    /\ vpc' = "exited"
    /\ vm_evt' = Append(vm_evt, FinalEventOf(exit_state))
    /\ UNCHANGED <<run_mode, interrupted_by_signal, from_main_tube, tube_open, messages,
                   exit_state, last_event, signal_pending, run_kicked, halt_kick, halted,
                   kick, taken, applied, vcpuCfg, blockVars>>

\* An interrupt for the VCPU arrives at the interrupt chip.
IrqArrives ==
    /\ vpc # "off"
    /\ ~VcpuEnded
    /\ halted
    /\ halted' = FALSE
    /\ UNCHANGED <<vpc, run_mode, interrupted_by_signal, from_main_tube, tube_open, messages,
                   exit_state, last_event, signal_pending, run_kicked, halt_kick, kick,
                   taken, applied, vm_evt,
                   vcpuCfg, blockVars>>

\* kick_vcpu / kick_all_vcpus: tube.send(message); it fails if the thread
\* has dropped the Receiver.
KickSend(k) ==
    /\ vpc # "off"
    /\ kick.pc = "idle"
    /\ kick.n < MaxKicks
    /\ tube_open
    /\ kick' = [pc |-> "signal", n |-> kick.n + 1]
    /\ from_main_tube' = IF VcpuEnded THEN from_main_tube
                         ELSE Append(from_main_tube, [id |-> kick.n + 1, kind |-> k])
    /\ UNCHANGED <<vpc, run_mode, interrupted_by_signal, tube_open, messages, exit_state,
                   last_event, signal_pending, run_kicked, halt_kick, halted, taken,
                   applied, vm_evt,
                   vcpuCfg, blockVars>>

\* handle.kill(SIGRTMIN() + 0), the result ignored.
KickSignal ==
    /\ kick.pc = "signal"
    /\ kick' = [kick EXCEPT !.pc = "halted"]
    /\ signal_pending' = IF VcpuEnded THEN signal_pending ELSE TRUE
    /\ UNCHANGED <<vpc, run_mode, interrupted_by_signal, from_main_tube, tube_open, messages,
                   exit_state, last_event, run_kicked, halt_kick, halted, taken, applied,
                   vm_evt,
                   vcpuCfg, blockVars>>

\* irq_chip.kick_halted_vcpus().
KickHalted ==
    /\ kick.pc = "halted"
    /\ kick' = [kick EXCEPT !.pc = "idle"]
    /\ halt_kick' = IF split_irqchip /\ ~VcpuEnded THEN TRUE ELSE halt_kick
    /\ UNCHANGED <<vpc, run_mode, interrupted_by_signal, from_main_tube, tube_open, messages,
                   exit_state, last_event, signal_pending, run_kicked, halted, taken,
                   applied, vm_evt,
                   vcpuCfg, blockVars>>

\* The main thread drops the Sender of the channel.
DropSender ==
    /\ vpc # "off"
    /\ kick.pc = "idle"
    /\ tube_open
    /\ tube_open' = FALSE
    /\ UNCHANGED <<vpc, run_mode, interrupted_by_signal, from_main_tube, messages,
                   exit_state, last_event, signal_pending, run_kicked, halt_kick, halted,
                   kick, taken, applied, vm_evt,
                   vcpuCfg, blockVars>>


(***************************************************************************)
(* The specification.                                                      *)
(***************************************************************************)
Next ==
    \/ \E q \in Queues : \E r \in Pool(pool) : GuestAdd(q, r)
    \/ \E q \in Queues : HandleQueue(q)
    \/ \E c \in ChainIds : TaskStart(c)
    \/ \E c \in ChainIds : TaskLockDisk(c)
    \/ \E c \in ChainIds : TaskLockShared(c)
    \/ \E c \in ChainIds : \E ok \in BOOLEAN : \E timer_ok \in BOOLEAN :
          DiskOpDone(c, ok, timer_ok)
    \/ \E w \in Workers : TimerFire(w)
    \/ \E w \in Workers : FlushWake(w)
    \/ \E w \in Workers : FlushLock(w)
    \/ \E w \in Workers : \E ok \in BOOLEAN : FlushFsyncDone(w, ok)
    \/ \E w \in Workers : FlushTimerError(w)
    \/ \E w \in Workers : ResampleError(w)
    \/ \E n \in ResizeSizes : ControllerSend(n)
    \/ CtlRecv
    \/ CtlRecvError
    \/ CtlLockDisk
    \/ CtlLockShared
    \/ \E ok \in BOOLEAN : ResizeSetLen(ok)
    \/ \E ok \in BOOLEAN : ResizeAllocate(ok)
    \/ \E ok \in BOOLEAN : ResizePublish(ok)
    \/ \E ok \in BOOLEAN : CtlSend(ok)
    \/ \E w \in Workers : Kill(w)
    \/ \E w \in Workers : WorkerExit(w)

\* Two workers, one per queue, on a writable sparse disk with an ID; the
\* guest submits up to MaxChains requests that can be in flight together.
Init == InitWith(TRUE, "basic", MaxChains, {FALSE}, {TRUE}, {TRUE})

Spec == Init /\ [][Next]_vars

\* One worker for both queues, every configuration of the device; the guest
\* submits one request of any kind.  With a single request in flight on a
\* single worker no task ever waits for a lock.
InitReq == InitWith(FALSE, "all", 1, BOOLEAN, BOOLEAN, BOOLEAN)

NextReq ==
    \/ \E q \in Queues : \E r \in Pool(pool) : GuestAdd(q, r)
    \/ \E q \in Queues : HandleQueue(q)
    \/ \E c \in ChainIds : TaskStart(c)
    \/ \E c \in ChainIds : \E ok \in BOOLEAN : \E timer_ok \in BOOLEAN :
          DiskOpDone(c, ok, timer_ok)
    \/ \E w \in Workers : TimerFire(w)
    \/ \E w \in Workers : FlushWake(w)
    \/ \E w \in Workers : \E ok \in BOOLEAN : FlushFsyncDone(w, ok)
    \/ \E w \in Workers : FlushTimerError(w)
    \/ \E n \in ResizeSizes : ControllerSend(n)
    \/ CtlRecv
    \/ CtlRecvError
    \/ CtlLockDisk
    \/ \E ok \in BOOLEAN : ResizeSetLen(ok)
    \/ \E ok \in BOOLEAN : ResizeAllocate(ok)
    \/ \E ok \in BOOLEAN : ResizePublish(ok)
    \/ \E ok \in BOOLEAN : CtlSend(ok)
    \/ \E w \in Workers : Kill(w)
    \/ \E w \in Workers : WorkerExit(w)

SpecReq == InitReq /\ [][NextReq]_vars

\* A step of the device itself: a poll of one of its tasks, or a step of the
\* synchronous part of resize.
SysNext ==
    \/ \E c \in ChainIds : TaskStart(c)
    \/ \E c \in ChainIds : TaskLockDisk(c)
    \/ \E c \in ChainIds : TaskLockShared(c)
    \/ \E c \in ChainIds : \E ok \in BOOLEAN : \E timer_ok \in BOOLEAN :
          DiskOpDone(c, ok, timer_ok)
    \/ \E w \in Workers : FlushLock(w)
    \/ \E w \in Workers : \E ok \in BOOLEAN : FlushFsyncDone(w, ok)
    \/ CtlLockDisk
    \/ CtlLockShared
    \/ \E ok \in BOOLEAN : ResizeSetLen(ok)
    \/ \E ok \in BOOLEAN : ResizeAllocate(ok)
    \/ \E ok \in BOOLEAN : ResizePublish(ok)
    \/ \E ok \in BOOLEAN : CtlSend(ok)

\* The executor polls every task that can proceed, every disk operation
\* completes, and the synchronous calls of resize return.
Fairness ==
    /\ \A c \in ChainIds : WF_vars(TaskLockDisk(c))
    /\ \A c \in ChainIds : WF_vars(TaskLockShared(c))
    /\ \A c \in ChainIds :
          WF_vars(\E ok \in BOOLEAN : \E timer_ok \in BOOLEAN : DiskOpDone(c, ok, timer_ok))
    /\ \A w \in Workers : WF_vars(FlushLock(w))
    /\ \A w \in Workers : WF_vars(\E ok \in BOOLEAN : FlushFsyncDone(w, ok))
    /\ \A w \in Workers : WF_vars(WorkerExit(w))
    /\ WF_vars(CtlLockDisk)
    /\ WF_vars(CtlLockShared)
    /\ WF_vars(\E ok \in BOOLEAN : ResizeSetLen(ok))
    /\ WF_vars(\E ok \in BOOLEAN : ResizeAllocate(ok))
    /\ WF_vars(\E ok \in BOOLEAN : ResizePublish(ok))

\* Two workers, one per queue; the guest submits writes, the controller
\* resizes, the flush timer expires, the workers are stopped; every disk
\* operation and every call of the backend and of the tube succeeds.
InitLock == InitWith(TRUE, "write", MaxChains, {FALSE}, {TRUE}, {TRUE})

NextLock ==
    \/ \E q \in Queues : \E r \in Pool(pool) : GuestAdd(q, r)
    \/ \E q \in Queues : HandleQueue(q)
    \/ \E c \in ChainIds : TaskStart(c)
    \/ \E c \in ChainIds : TaskLockDisk(c)
    \/ \E c \in ChainIds : TaskLockShared(c)
    \/ \E c \in ChainIds : DiskOpDone(c, TRUE, TRUE)
    \/ \E w \in Workers : TimerFire(w)
    \/ \E w \in Workers : FlushWake(w)
    \/ \E w \in Workers : FlushLock(w)
    \/ \E w \in Workers : FlushFsyncDone(w, TRUE)
    \/ \E n \in ResizeSizes : ControllerSend(n)
    \/ CtlRecv
    \/ CtlLockDisk
    \/ CtlLockShared
    \/ ResizeSetLen(TRUE)
    \/ ResizeAllocate(TRUE)
    \/ ResizePublish(TRUE)
    \/ CtlSend(TRUE)
    \/ \E w \in Workers : Kill(w)
    \/ \E w \in Workers : WorkerExit(w)

SpecLock == InitLock /\ [][NextLock]_vars /\ Fairness

\* build_config_space: the capacity field, in sectors.
Capacity(dsz) == WrappingShr(dsz, SECTOR_SHIFT)

\* read_config: the capacity a config-space read returns.
ReadConfigCapacity == Capacity(disk_size)

\* The device as BlockAsync::new leaves it, with or without a control tube
\* and an id, with either setting of worker_per_queue, on a disk image that
\* can or cannot be cloned; activate and reset are called in any order, the
\* guest submits a write, the control tube may fail.
InitLife ==
    /\ VcpuOff
    /\ read_only = FALSE
    /\ id_set = FALSE
    /\ worker_per_queue \in BOOLEAN
    /\ cloneable \in BOOLEAN
    /\ pool = "write"
    /\ budget = 1
    /\ disk_size = OriginalSize
    /\ sparse = TRUE
    /\ dev_sparse = TRUE
    /\ file_len = OriginalSize
    /\ sl = FreeLock
    /\ dl = [w \in Workers |-> FreeLock]
    /\ chains = [c \in ChainIds |-> FreeChain]
    /\ avail = [q \in Queues |-> <<>>]
    /\ evt = [q \in Queues |-> FALSE]
    /\ used = [q \in Queues |-> <<>>]
    /\ intr = [q \in Queues |-> 0]
    /\ armed = [w \in Workers |-> FALSE]
    /\ timer = [w \in Workers |-> "off"]
    /\ flusher = [w \in Workers |-> "stopped"]
    /\ ctl = [IdleCtl EXCEPT !.pc = "stopped"]
    /\ tube_in = <<>>
    /\ tube_out = <<>>
    /\ config_changed = 0
    /\ nresize = 0
    /\ wstate = [w \in Workers |-> "absent"]
    /\ kill = [w \in Workers |-> FALSE]
    /\ wmsg = [w \in Workers |-> "none"]
    /\ cache = EmptyCache
    /\ nqueues = 0
    /\ dev_image = TRUE
    /\ dev_tube \in BOOLEAN
    /\ dev_id \in BOOLEAN
    /\ worker_threads = <<>>
    /\ w_image = [w \in Workers |-> FALSE]
    /\ w_tube = [w \in Workers |-> FALSE]
    /\ rst = IdleReset
    /\ reset_ret = "none"
    /\ act_ret = "none"
    /\ nactivate = 0

NextLife ==
    \/ \E nq \in 1..Cardinality(Queues) : Activate(nq)
    \/ ResetBegin
    \/ ResetJoin
    \/ \E w \in Workers : WorkerExit(w)
    \/ CtlRecvError
    \/ \E q \in Queues : \E r \in Pool(pool) : GuestAdd(q, r)
    \/ \E q \in Queues : HandleQueue(q)
    \/ \E c \in ChainIds : TaskStart(c)
    \/ \E c \in ChainIds : DiskOpDone(c, TRUE, TRUE)

\* A stopped worker's executor polls the kill arm; a joined thread returns.
FairnessLife ==
    /\ \A w \in Workers : WF_vars(WorkerExit(w))
    /\ WF_vars(ResetJoin)

SpecLife == InitLife /\ [][NextLife]_vars /\ FairnessLife

\* One VCPU thread as run_vcpu starts it, Running or suspended, in either
\* signal mode, with either kind of interrupt chip, with or without gdb; the
\* main thread makes up to MaxKicks kicks and may drop its Sender.
InitVcpuAt(pc) ==
    /\ InitBlock(FALSE, "basic", 0, {FALSE}, {TRUE}, {TRUE})
    /\ vpc = pc
    /\ run_mode \in {"Running", "Suspending"}
    /\ interrupted_by_signal = FALSE
    /\ from_main_tube = <<>>
    /\ tube_open = TRUE
    /\ messages = <<>>
    /\ exit_state = "none"
    /\ last_event = "none"
    /\ signal_pending = FALSE
    /\ run_kicked = FALSE
    /\ halt_kick = FALSE
    /\ halted = FALSE
    /\ kick = IdleKick
    /\ taken = <<>>
    /\ applied = <<>>
    /\ use_hypervisor_signals \in BOOLEAN
    /\ split_irqchip \in BOOLEAN
    /\ gdb \in BOOLEAN
    /\ vm_evt = <<>>

\* The thread of run_vcpu has been spawned.
InitVcpu == InitVcpuAt("spawned")

NextVcpu ==
    \/ LoopTop
    \/ TryRecv
    \/ Recv
    \/ ApplyMsg
    \/ \E res \in {"Runnable", "Interrupted", "Err"} : WaitUntilRunnable(res)
    \/ \E e \in RunResults : \E gdb_ok \in BOOLEAN : RunReturn(e, gdb_ok)
    \/ \E ok \in BOOLEAN : ClearSignal(ok)
    \/ \E sched_ok \in BOOLEAN : \E vcpu_ok \in BOOLEAN : VcpuSetup(sched_ok, vcpu_ok)
    \/ SendFinalEvent
    \/ IrqArrives
    \/ \E k \in VcpuControls : KickSend(k)
    \/ KickSignal
    \/ KickHalted
    \/ DropSender

SpecVcpu == InitVcpu /\ [][NextVcpu]_vars

\* The VCPU thread is scheduled; a kick pending when vcpu.run is entered, or
\* arriving while it runs, ends the run with EINTR; wait_until_runnable
\* returns once it can; the main thread finishes the kick it started.
FairnessKick ==
    /\ WF_vars(LoopTop)
    /\ WF_vars(TryRecv)
    /\ WF_vars(Recv)
    /\ WF_vars(ApplyMsg)
    /\ WF_vars(WaitUntilRunnable("Runnable") \/ WaitUntilRunnable("Interrupted"))
    /\ WF_vars(RunReturn("EINTR", TRUE))
    /\ WF_vars(\E ok \in BOOLEAN : ClearSignal(ok))
    /\ WF_vars(KickSignal)
    /\ WF_vars(KickHalted)

\* The messages and the results of vcpu.run that differ in how they make
\* the thread move between the state loop, the run call and its end.
KickControls == {"Running", "Suspending", "Exiting", "GetStates"}
KickResults == {"Io", "Hlt", "Debug", "Shutdown", "EINTR", "EAGAIN"}

InitKick == InitVcpuAt("top") /\ ~gdb

NextKick ==
    \/ LoopTop
    \/ TryRecv
    \/ Recv
    \/ ApplyMsg
    \/ \E res \in {"Runnable", "Interrupted", "Err"} : WaitUntilRunnable(res)
    \/ \E e \in KickResults : RunReturn(e, TRUE)
    \/ \E ok \in BOOLEAN : ClearSignal(ok)
    \/ IrqArrives
    \/ \E k \in KickControls : KickSend(k)
    \/ KickSignal
    \/ KickHalted
    \/ DropSender

SpecKick == InitKick /\ [][NextKick]_vars /\ FairnessKick

(***************************************************************************)
(* Properties.                                                             *)
(***************************************************************************)
Done(c) == chains[c].pc = "done"

\* How often chain c is in the used ring of its queue.
NUsed(c) ==
    IF chains[c].q = 0 THEN 0
    ELSE Cardinality({i \in 1..Len(used[chains[c].q]) : used[chains[c].q][i][1] = c})

\* The header of the request could be read.
HeaderRead(r) == r.rlen >= HEADER_LEN

\* The number of data bytes of an IN or OUT request.
DataLen(r) == IF r.type = VIRTIO_BLK_T_IN THEN r.wlen - 1 ELSE r.rlen - HEADER_LEN

IsInOut(r) == r.type \in {VIRTIO_BLK_T_IN, VIRTIO_BLK_T_OUT}

\* C1: a request task that holds its two shared locks and awaits its disk
\* operation never coexists with a resize that is at set_len, allocate or
\* the publication of disk_size, on whichever worker the task runs; and the
\* disk_size it was range-checked against is still the published one.
C1_ResizeAtomic ==
    \A c \in ChainIds :
        chains[c].pc = "io" =>
            /\ ctl.pc \notin {"locked", "allocate", "publish"}
            /\ chains[c].checked = disk_size

\* A request of the other worker is in flight while resize waits for the
\* WorkerSharedState lock.
C1_Witness ==
    \E c \in ChainIds :
        /\ chains[c].pc = "io"
        /\ Owner(chains[c].q) # CONTROL_WORKER
        /\ ctl.pc = "lock_shared"

\* C2: an IN or OUT request with data whose end, sector * 512 + data_len over
\* the integers, lies beyond the disk_size loaded under the lock completes
\* with IOERR and without a disk operation.
C2_BeyondEndFails ==
    \A c \in ChainIds :
        ( /\ Done(c)
          /\ IsInOut(chains[c].req)
          /\ chains[c].checked # NoneU64
          /\ HeaderRead(chains[c].req)
          /\ DataLen(chains[c].req) > 0
          /\ MathBeyond(chains[c].req.sector, U64(DataLen(chains[c].req)),
                        chains[c].checked) )
        => /\ chains[c].status = VIRTIO_BLK_S_IOERR
           /\ chains[c].nops = 0

\* C3: a request whose sector-to-byte shift does not fit in 64 bits fails with
\* OutOfRange and without a disk operation.
C3_ShiftOverflowFails ==
    \A c \in ChainIds :
        ( /\ Done(c)
          /\ chains[c].checked # NoneU64
          /\ HeaderRead(chains[c].req)
          /\ ~ReadOnlyRefuses(read_only, chains[c].req.type)
          /\ \/ /\ IsInOut(chains[c].req)
                /\ DataLen(chains[c].req) > 0
                /\ ShiftOverflows(chains[c].req.sector)
             \/ /\ chains[c].req.type = VIRTIO_BLK_T_WRITE_ZEROES
                /\ chains[c].req.segs # <<>>
                /\ chains[c].req.segs[1].flags \in {0, 1}
                /\ ShiftOverflows(chains[c].req.segs[1].sector) )
        => /\ chains[c].err = "OutOfRange"
           /\ chains[c].nops = 0

C5_ExactlyOncePerPopped ==
    /\ \A c \in ChainIds : chains[c].pc \in {"done", "dropped"} => NUsed(c) = 1
    /\ \A q \in Queues : intr[q] = Len(used[q])

\* C5 (amended): add_used is called at most once per popped chain, exactly
\* once for a chain whose task ran to its end, and not at all for a chain
\* whose task was dropped when run_worker returned; every add_used has its
\* interrupt trigger.
C5_AtMostOnce ==
    /\ \A c \in ChainIds :
          /\ NUsed(c) <= 1
          /\ Done(c) <=> NUsed(c) = 1
          /\ chains[c].pc = "dropped" => wstate[Owner(chains[c].q)] \in {"ok", "err"}
    /\ \A q \in Queues : intr[q] = Len(used[q])

\* The kill event ended a worker that had completed one chain and had
\* another one in flight.
C5_Witness ==
    \E c, d \in ChainIds :
        /\ Done(c)
        /\ chains[d].pc = "dropped"
        /\ chains[c].q = chains[d].q
        /\ wstate[Owner(chains[c].q)] = "ok"

C8_ReadOnly ==
    /\ read_only => \A w \in Workers : ~armed[w] /\ timer[w] = "off"
    /\ \A c \in ChainIds :
          ( /\ read_only
            /\ HeaderRead(chains[c].req)
            /\ chains[c].req.type \notin {VIRTIO_BLK_T_IN, VIRTIO_BLK_T_GET_ID} )
          => /\ chains[c].nops = 0
             /\ (Done(c) /\ chains[c].req.wlen >= 1) =>
                   /\ chains[c].err = "ReadOnly"
                   /\ chains[c].status = VIRTIO_BLK_S_IOERR
    /\ \A c \in ChainIds :
          ( /\ chains[c].checked # NoneU64
            /\ chains[c].req.type \in {VIRTIO_BLK_T_IN, VIRTIO_BLK_T_GET_ID} )
          => Dispatch(chains[c].req, TRUE, chains[c].checked, sparse, id_set)
               = Dispatch(chains[c].req, FALSE, chains[c].checked, sparse, id_set)

\* A FLUSH on a read-only device ended with ReadOnly.
C8_Witness ==
    \E c \in ChainIds :
        /\ read_only
        /\ Done(c)
        /\ chains[c].req.type = VIRTIO_BLK_T_FLUSH
        /\ chains[c].err = "ReadOnly"
        /\ chains[c].nops = 0

\* The step in which the OUT request of chain c completes successfully.
OutOkStep(c) ==
    /\ ~Done(c)
    /\ chains'[c].pc = "done"
    /\ chains[c].req.type = VIRTIO_BLK_T_OUT
    /\ chains'[c].err = "none"

\* The step in which a request of worker w returns from its fsync.
FsyncReturnStep(w) ==
    \E c \in ChainIds :
        /\ Owner(chains[c].q) = w
        /\ chains[c].pc = "io"
        /\ chains[c].op = "fsync"
        /\ chains'[c].pc = "done"

\* The step in which flush_disk of worker w finds the flag set at a timer expiry.
FlusherStep(w) == flusher[w] = "wait" /\ flusher'[w] \in {"lock", "fsync"}

\* The flag of worker w goes from true to false while the worker runs on.
ClearStep(w) == armed[w] /\ ~armed'[w] /\ wstate'[w] = "running"

\* C9 (as stated): a successful OUT leaves the flag true, and only a FLUSH
\* request makes it false again.
C9_ArmedAfterOut ==
    [][/\ \A c \in ChainIds : OutOkStep(c) => armed'[Owner(chains[c].q)]
       /\ \A w \in Workers : ClearStep(w) => FsyncReturnStep(w)]_vars

\* C9 (amended): a successful OUT that wrote at least one byte leaves the
\* flag true, and only a FLUSH request or the periodic flusher, at a timer
\* expiry, makes it false again.
C9_ArmedAfterDataOut ==
    [][/\ \A c \in ChainIds :
             (OutOkStep(c) /\ DataLen(chains[c].req) > 0) => armed'[Owner(chains[c].q)]
       /\ \A w \in Workers : ClearStep(w) => (FsyncReturnStep(w) \/ FlusherStep(w))]_vars

\* An OUT with data completed successfully, the flag is true and the timer set.
C9_Witness ==
    \E c \in ChainIds :
        /\ Done(c)
        /\ chains[c].req.type = VIRTIO_BLK_T_OUT
        /\ DataLen(chains[c].req) > 0
        /\ chains[c].err = "none"
        /\ armed[Owner(chains[c].q)]
        /\ timer[Owner(chains[c].q)] = "set"

\* C10: the flag is set only by the return of a request from a write, and
\* it is never cleared by a step that comes after the fsync it goes with:
\* the clearing step is not the return from that fsync.
C10_ClearBeforeFsync ==
    [][\A w \in Workers :
          /\ (~armed[w] /\ armed'[w]) =>
                \E c \in ChainIds :
                    /\ Owner(chains[c].q) = w
                    /\ chains[c].pc = "io"
                    /\ chains[c].op = "write"
                    /\ chains'[c].pc = "done"
          /\ ClearStep(w) => ~FsyncReturnStep(w)]_vars

\* The step in which resize returns resp.
ResizeReturnStep(resp) ==
    /\ ctl.pc \in {"locked", "allocate", "publish"}
    /\ ctl'.pc = "reply"
    /\ ctl'.resp = resp

\* The step in which the reply resp has been sent on the control tube.
ReplyStep(resp) ==
    /\ ctl.pc = "reply"
    /\ ctl.resp = resp
    /\ tube_out' = Append(tube_out, resp)

\* How many of the replies sent so far are Ok.
NOk == Cardinality({i \in 1..Len(tube_out) : tube_out[i] = "Ok"})

\* C11: when resize returns Ok (write access, set_len and allocate both
\* succeeded) the sparse flag is false and the published disk_size is the
\* new_size of the command.
C11_ResizePublishes ==
    (ctl.pc = "reply" /\ ctl.resp = "Ok") =>
        /\ ~read_only
        /\ ~sparse
        /\ disk_size = ctl.new_size

\* C12: a resize in which set_len or allocate fails returns EIO and leaves
\* the published disk_size as it was; the published size changes only in the
\* step after both have succeeded, and an EIO reply signals no config change.
C12_FailureKeepsSize ==
    [][/\ (~read_only /\ ctl.pc \in {"locked", "allocate"} /\ ctl'.pc = "reply") =>
              /\ ctl'.resp = "EIO"
              /\ disk_size' = disk_size
              /\ sparse' = sparse
       /\ disk_size' # disk_size => (ctl.pc = "publish" /\ ctl'.resp = "Ok")
       /\ ReplyStep("EIO") => config_changed' = config_changed]_vars

\* An EIO reply was sent; the published size is the original one although
\* the file may have a new length.
C12_Witness ==
    /\ tube_out = <<"EIO">>
    /\ disk_size = OriginalSize
    /\ file_len # OriginalSize
    /\ config_changed = 0

\* C13: on a read-only device resize returns EROFS from the state in which it
\* holds its locks; the backend is never called, file length, published size
\* and sparse flag never change, every reply is EROFS and no config change
\* is ever signalled.
C13_ReadOnlyResize ==
    /\ [](read_only =>
            /\ ctl.pc \notin {"allocate", "publish"}
            /\ ctl.resp \in {"none", "EROFS"}
            /\ \A i \in 1..Len(tube_out) : tube_out[i] = "EROFS"
            /\ config_changed = 0)
    /\ [][read_only => UNCHANGED diskVars]_vars

\* On a read-only device the reply to a Resize was EROFS.
C13_Witness ==
    /\ read_only
    /\ tube_out = <<"EROFS">>
    /\ ctl.pc = "recv"

\* C14: when the Ok reply is sent, read_config already returns the capacity
\* new_size >> 9; the config change is signalled after that reply and only
\* for Ok replies: there are as many signals as Ok replies sent.
C14_PublishReplySignal ==
    /\ [](config_changed = NOk)
    /\ [][/\ ReplyStep("Ok") =>
                /\ ReadConfigCapacity = Capacity(ctl.new_size)
                /\ config_changed' = config_changed + 1
          /\ config_changed' # config_changed => ReplyStep("Ok")]_vars

\* C15: the published disk_size (and with it the capacity config reads
\* return) decreases only in the publishing step of a resize that returns Ok
\* and whose new_size is smaller than the size published before.
C15_SizeDecrease ==
    [][(GtU64(disk_size, disk_size') \/ GtU64(ReadConfigCapacity, ReadConfigCapacity')) =>
            /\ ResizeReturnStep("Ok")
            /\ disk_size' = ctl.new_size
            /\ GtU64(disk_size, ctl.new_size)]_vars

\* A successful resize to a smaller size was published and answered.
C15_Witness ==
    /\ GtU64(OriginalSize, disk_size)
    /\ tube_out = <<"Ok">>
    /\ GtU64(Capacity(OriginalSize), ReadConfigCapacity)

\* The request task of chain c waits for a lock.
TaskWaits(c) == chains[c].pc \in {"lock_disk", "lock_shared"}

\* Some task of the device waits for a lock.
SomeoneWaits ==
    \/ \E c \in ChainIds : TaskWaits(c)
    \/ \E w \in Workers : flusher[w] = "lock"
    \/ ctl.pc \in {"lock_disk", "lock_shared"}

\* DiskState is locked before WorkerSharedState by every task, and the task
\* that asks for an exclusive lock holds no shared one.
LockOrder ==
    /\ \A c \in ChainIds :
          LET w == Owner(chains[c].q)
          IN  /\ c \in sl.r => c \in dl[w].r
              /\ chains[c].pc = "lock_shared" => (c \in dl[w].r /\ c \notin sl.r)
              /\ chains[c].pc = "lock_disk" => (c \notin dl[w].r /\ c \notin sl.r)
              /\ chains[c].pc = "io" => (c \in dl[w].r /\ c \in sl.r)
    /\ FLUSHER \notin sl.r
    /\ \A w \in Workers : flusher[w] = "lock" => FLUSHER \notin dl[w].r
    /\ sl.w => dl[CONTROL_WORKER].w
    /\ ctl.pc = "lock_shared" => (dl[CONTROL_WORKER].w /\ ~sl.w)
    /\ ctl.pc = "lock_disk" => (~dl[CONTROL_WORKER].w /\ ~sl.w)
    /\ \A w \in Workers : dl[w].w => (w = CONTROL_WORKER /\ dl[w].r = {})
    /\ sl.w => sl.r = {}

\* C16: the locks are taken in the order DiskState, WorkerSharedState; in
\* no reachable state do tasks wait for locks while the device can take no
\* step; and with disk operations completing every task that waits for a
\* lock gets it, or is dropped with its worker.
C16_NoDeadlock ==
    /\ [](LockOrder)
    /\ [](SomeoneWaits => ENABLED SysNext)
    /\ \A c \in ChainIds : TaskWaits(c) ~> ~TaskWaits(c)
    /\ \A w \in Workers : (flusher[w] = "lock") ~> (flusher[w] # "lock")
    /\ (ctl.pc \in {"lock_disk", "lock_shared"}) ~> (ctl.pc \notin {"lock_disk", "lock_shared"})

\* A request of the other worker waits for the WorkerSharedState lock while
\* resize, holding its DiskState lock, waits for a request in flight.
C16_Witness ==
    /\ ctl.pc = "lock_shared"
    /\ \E c, d \in ChainIds :
          /\ chains[c].pc = "io"
          /\ chains[d].pc = "lock_shared"
          /\ Owner(chains[d].q) # CONTROL_WORKER

\* How many holders the control tube has: the device and the worker threads.
TubeCount ==
    (IF dev_tube THEN 1 ELSE 0) + Cardinality({w \in Workers : w_tube[w]})

\* The step in which a call of activate returns Ok.
ActivateOkStep == nactivate' = nactivate + 1 /\ act_ret' = "ok"

\* C17: after activate, and until reset, there is one worker thread per queue,
\* each with a disk handle and its one queue, when worker_per_queue is set and
\* the image can be cloned; otherwise there is exactly one worker thread,
\* with the one disk handle and all the queues.
C17_WorkersPerQueue ==
    (worker_threads # <<>> /\ rst.pc = "idle") =>
        /\ Len(worker_threads) = IF worker_per_queue /\ cloneable THEN nqueues ELSE 1
        /\ \A k \in 1..Len(worker_threads) :
              /\ worker_threads[k] = k
              /\ w_image[k]
              /\ wstate[k] # "absent"
        /\ Cardinality({w \in Workers : w_image[w]}) = Len(worker_threads)
        /\ \A q \in 1..nqueues :
              /\ Owner(q) = IF worker_per_queue /\ cloneable THEN q ELSE 1
              /\ q \in QueuesPerWorker(worker_per_queue, cloneable, nqueues)[Owner(q)]
        /\ ~dev_image

\* Two queues, worker_per_queue set, a disk image that can be cloned: two
\* workers run, and the second one serves a request of the second queue.
C17_Witness ==
    /\ worker_per_queue /\ cloneable /\ nqueues = 2
    /\ worker_threads = <<1, 2>>
    /\ \E c \in ChainIds : chains[c].pc = "io" /\ chains[c].q = 2 /\ Owner(chains[c].q) = 2

C19_ResetIdempotent ==
    [][/\ (rst.pc = "join" /\ rst'.pc = "idle") =>
              (reset_ret' = "true" /\ rst.joined + 1 > 0)
       /\ (rst.pc = "idle" /\ rst'.pc = "idle" /\ reset_ret' # reset_ret) =>
              /\ reset_ret' = "false"
              /\ worker_threads = <<>>
              /\ UNCHANGED <<dev_image, dev_tube, dev_id, worker_threads, w_image, w_tube,
                             wstate, kill, act_ret, nactivate>>
       /\ (rst.pc = "idle" /\ rst'.pc = "join") => worker_threads # <<>>]_vars

\* The device was activated and reset, and a second reset returned false.
C19_Witness ==
    /\ nactivate = 1
    /\ act_ret = "ok"
    /\ reset_ret = "false"
    /\ rst.pc = "idle"
    /\ dev_image
    /\ worker_threads = <<>>

\* The step in which run_worker of worker w returns.
ReturnStep(w) == wstate[w] = "running" /\ wstate'[w] \in {"ok", "err"}

\* C20: a running worker whose kill event is signalled returns; it returns
\* Ok only after a kill; when it returns its tasks are dropped and hold no
\* lock; the reset that stopped it gets its disk image and control tube and
\* returns.
C20_KillTerminates ==
    /\ \A w \in Workers : (kill[w] /\ wstate[w] = "running") ~> (wstate[w] # "running")
    /\ (rst.pc = "join") ~> (rst.pc = "idle")
    /\ [][\A w \in Workers :
             /\ ReturnStep(w) =>
                   /\ wstate'[w] = "ok" => kill[w]
                   /\ \A c \in ChainIds :
                         (Owner(chains[c].q) = w /\ InFlight(c)) =>
                             (chains'[c].pc = "dropped" /\ c \notin sl'.r)
                   /\ dl'[w] = FreeLock
                   /\ w = CONTROL_WORKER => (~sl'.w /\ ~sl'.ww)
                   /\ w_image'[w]
             /\ (rst.pc = "join" /\ rst.cur = w /\ rst' # rst) =>
                   /\ dev_image'
                   /\ w_tube[w] => dev_tube']_vars

\* A worker returned Ok on the kill event of a reset while a write was in
\* flight; the task is dropped and the locks are free.
C20_Witness ==
    \E c \in ChainIds :
        /\ chains[c].pc = "dropped"
        /\ chains[c].nops = 1
        /\ wstate[Owner(chains[c].q)] = "ok"
        /\ sl = FreeLock
        /\ rst.pc = "join"

\* A GET_ID request whose header was read and that has a status byte.
IsGetId(c) ==
    /\ chains[c].req.type = VIRTIO_BLK_T_GET_ID
    /\ HeaderRead(chains[c].req)
    /\ chains[c].req.wlen >= 1

\* A completed request is in the log exactly when it failed with an error
\* other than Unsupported(VIRTIO_BLK_T_GET_ID).
LoggedUnlessGetIdUnsupported(c) ==
    (chains[c].logged = 0) <=>
        \/ chains[c].err = "none"
        \/ chains[c].err = "Unsupported" /\ chains[c].req.type = VIRTIO_BLK_T_GET_ID

\* C21 as stated: a GET_ID request on a device with an ID writes all 20
\* bytes of the ID and completes OK; on a device without an ID it fails
\* with Unsupported(8) and UNSUPP, the only request error that is not logged.
C21_GetIdAsStated ==
    \A c \in ChainIds :
        Done(c) =>
            /\ LoggedUnlessGetIdUnsupported(c)
            /\ IsGetId(c) =>
                  IF id_set
                  THEN /\ chains[c].err = "none"
                       /\ chains[c].status = VIRTIO_BLK_S_OK
                       /\ chains[c].id_bytes = ID_LEN
                  ELSE /\ chains[c].err = "Unsupported"
                       /\ chains[c].status = VIRTIO_BLK_S_UNSUPP
                       /\ chains[c].logged = 0

\* C21: a GET_ID request on a device with an ID writes all 20 bytes of the
\* ID and completes OK when its data region holds at least 20 bytes, and
\* otherwise fails with CopyId and IOERR, which is logged; on a device
\* without an ID it fails with Unsupported(8) and UNSUPP, the only request
\* error that is not logged.
C21_GetId ==
    \A c \in ChainIds :
        Done(c) =>
            /\ LoggedUnlessGetIdUnsupported(c)
            /\ IsGetId(c) =>
                  IF ~id_set
                  THEN /\ chains[c].err = "Unsupported"
                       /\ chains[c].status = VIRTIO_BLK_S_UNSUPP
                       /\ chains[c].logged = 0
                  ELSE IF chains[c].req.wlen - 1 >= ID_LEN
                  THEN /\ chains[c].err = "none"
                       /\ chains[c].status = VIRTIO_BLK_S_OK
                       /\ chains[c].id_bytes = ID_LEN
                  ELSE /\ chains[c].err = "CopyId"
                       /\ chains[c].status = VIRTIO_BLK_S_IOERR
                       /\ chains[c].id_bytes < ID_LEN
                       /\ chains[c].logged = 1

\* A GET_ID on a device with an ID completed OK with the 20 bytes written.
C21_Witness ==
    \E c \in ChainIds :
        /\ Done(c)
        /\ IsGetId(c)
        /\ id_set
        /\ chains[c].err = "none"
        /\ chains[c].id_bytes = ID_LEN
        /\ chains[c].logged = 0
        /\ NUsed(c) = 1

\* A request of a type the device does not know, with header and status byte.
IsUnknownType(c) ==
    /\ chains[c].req.type \notin {VIRTIO_BLK_T_IN, VIRTIO_BLK_T_OUT, VIRTIO_BLK_T_FLUSH,
                                  VIRTIO_BLK_T_GET_ID, VIRTIO_BLK_T_DISCARD,
                                  VIRTIO_BLK_T_WRITE_ZEROES}
    /\ HeaderRead(chains[c].req)
    /\ chains[c].req.wlen >= 1

\* C22 as stated: a request of an unknown type fails with Unsupported and
\* UNSUPP, with no disk operation and the flush-armed flag unchanged.
C22_UnknownTypeAsStated ==
    [][\A c \in ChainIds :
          (IsUnknownType(c) /\ ~Done(c) /\ chains'[c].pc = "done") =>
              /\ chains'[c].err = "Unsupported"
              /\ chains'[c].status = VIRTIO_BLK_S_UNSUPP
              /\ chains'[c].nops = 0
              /\ armed' = armed]_vars

\* C22: a request of an unknown type issues no disk operation and leaves the
\* flush-armed flag and the timer as they are; on a writable device it fails
\* with Unsupported and UNSUPP, on a read-only one with ReadOnly and IOERR.
C22_UnknownType ==
    [][\A c \in ChainIds :
          (IsUnknownType(c) /\ ~Done(c) /\ chains'[c].pc = "done") =>
              /\ chains'[c].err = IF read_only THEN "ReadOnly" ELSE "Unsupported"
              /\ chains'[c].status =
                    IF read_only THEN VIRTIO_BLK_S_IOERR ELSE VIRTIO_BLK_S_UNSUPP
              /\ chains'[c].nops = 0
              /\ chains'[c].nstatus = 1
              /\ armed' = armed
              /\ timer' = timer]_vars

\* A request of an unknown type on a writable device ended with UNSUPP.
C22_Witness ==
    \E c \in ChainIds :
        /\ ~read_only
        /\ Done(c)
        /\ IsUnknownType(c)
        /\ chains[c].err = "Unsupported"
        /\ chains[c].status = VIRTIO_BLK_S_UNSUPP
        /\ chains[c].nops = 0

\* The step in which the request of chain c passes its two read locks and
\* loads the disk size it is range-checked against.
AcquireStep(c) ==
    /\ chains[c].checked = NoneU64
    /\ chains'[c].checked # NoneU64

\* C23: with one worker per queue, once a Resize handled by the worker that
\* owns the control tube has been answered Ok, read_config reports the
\* capacity of the new size and the sparse flag is false; every request, on
\* whichever worker, that acquires its locks is range-checked against the
\* published size and sees the published sparse flag; only the worker that
\* owns the control tube takes commands from it.
C23_ResizeDeviceWide ==
    [][/\ ReplyStep("Ok") =>
             /\ ReadConfigCapacity = Capacity(ctl.new_size)
             /\ ~sparse
       /\ \A c \in ChainIds :
             AcquireStep(c) =>
                 /\ chains'[c].checked = disk_size
                 /\ chains'[c].sp = sparse
       /\ (tube_in' # tube_in /\ Len(tube_in') < Len(tube_in)) =>
             /\ worker_per_queue
             /\ Runs(CONTROL_WORKER)]_vars

\* A DISCARD or WRITE_ZEROES request with header and status byte.
IsSegRequest(c) ==
    /\ chains[c].req.type \in {VIRTIO_BLK_T_DISCARD, VIRTIO_BLK_T_WRITE_ZEROES}
    /\ HeaderRead(chains[c].req)
    /\ chains[c].req.wlen >= 1

\* The number of whole segments after the header of request r.
NSegs(r) == (r.rlen - HEADER_LEN) \div SEG_LEN

\* Segment k of r has a flag bit its request type does not accept: any bit
\* for DISCARD, any bit other than UNMAP (bit 0) for WRITE_ZEROES.
BadFlags(r, k) ==
    IF r.type = VIRTIO_BLK_T_DISCARD THEN r.segs[k].flags # 0
    ELSE r.segs[k].flags \div 2 # 0

\* The segments of r with a flag bit that is not accepted.
BadSegs(r) == {k \in 1..NSegs(r) : BadFlags(r, k)}

\* The first of them.
FirstBad(r) == CHOOSE k \in BadSegs(r) : \A j \in BadSegs(r) : k <= j

\* No disk operation was issued for the first segment with a bad flag, and
\* the request, once completed, failed with IOERR, with DiscardWriteZeroes
\* if every segment before that one was carried out.
BadSegmentFails(c) ==
    /\ chains[c].nops < FirstBad(chains[c].req)
    /\ Done(c) =>
          /\ chains[c].err # "none"
          /\ chains[c].status = VIRTIO_BLK_S_IOERR
          /\ chains[c].nops = FirstBad(chains[c].req) - 1 =>
                chains[c].err = "DiscardWriteZeroes"

\* C28 as stated: every DISCARD segment with any flag bit set, and every
\* WRITE_ZEROES segment with any bit other than UNMAP set, fails with
\* DiscardWriteZeroes (IOERR) with no disk operation issued for it.
C28_BadFlagsAsStated ==
    \A c \in ChainIds :
        (IsSegRequest(c) /\ BadSegs(chains[c].req) # {}) => BadSegmentFails(c)

\* C28: on a writable device, every WRITE_ZEROES segment with any bit other
\* than UNMAP set and, on a sparse disk, every DISCARD segment with any flag
\* bit set, fails the request with DiscardWriteZeroes (IOERR) when the
\* segment loop reaches it, with no disk operation issued for it.  A DISCARD
\* that finds the disk non-sparse completes OK before any segment is read.
C28_BadFlags ==
    \A c \in ChainIds :
        ( /\ IsSegRequest(c)
          /\ BadSegs(chains[c].req) # {}
          /\ ~read_only
          /\ chains[c].checked # NoneU64 )
        => IF chains[c].req.type = VIRTIO_BLK_T_DISCARD /\ ~chains[c].sp
           THEN /\ chains[c].nops = 0
                /\ Done(c)
                /\ chains[c].err = "none"
           ELSE BadSegmentFails(c)

\* A DISCARD with a flag set on a writable sparse disk failed with
\* DiscardWriteZeroes before any disk operation.
C28_Witness ==
    \E c \in ChainIds :
        /\ Done(c)
        /\ IsSegRequest(c)
        /\ chains[c].req.type = VIRTIO_BLK_T_DISCARD
        /\ BadSegs(chains[c].req) # {}
        /\ chains[c].sp
        /\ ~read_only
        /\ chains[c].err = "DiscardWriteZeroes"
        /\ chains[c].status = VIRTIO_BLK_S_IOERR
        /\ chains[c].nops = 0

\* The step in which the disk operation op of chain c returns to its task.
OpReturnStep(c, op) ==
    /\ chains[c].pc = "io"
    /\ chains[c].op = op
    /\ chains'[c] # chains[c]
    /\ chains'[c].pc # "dropped"

\* C29: DISCARD is a hint.  A DISCARD that finds the disk non-sparse
\* completes OK without a punch_hole.  On a sparse disk no outcome of
\* punch_hole fails the request: after it the request goes on to its next
\* segment, completes OK if there is none, and fails only for what is wrong
\* with the next segment.  After write_zeroes_at the request goes on, or
\* completes OK, or fails with IOERR.
C29_DiscardHint ==
    [][\A c \in ChainIds :
          /\ ( /\ AcquireStep(c)
               /\ IsSegRequest(c)
               /\ chains[c].req.type = VIRTIO_BLK_T_DISCARD
               /\ ~read_only
               /\ ~sparse )
             => /\ chains'[c].pc = "done"
                /\ chains'[c].err = "none"
                /\ chains'[c].status = VIRTIO_BLK_S_OK
                /\ chains'[c].nops = 0
          /\ OpReturnStep(c, "punch_hole") =>
                LET r == chains[c].req
                    k == chains[c].seg + 1
                IN  IF k > NSegs(r)
                    THEN /\ chains'[c].pc = "done"
                         /\ chains'[c].err = "none"
                         /\ chains'[c].status = VIRTIO_BLK_S_OK
                    ELSE \/ /\ chains'[c].pc = "io"
                            /\ chains'[c].seg = k
                            /\ chains'[c].op = "punch_hole"
                         \/ /\ chains'[c].pc = "done"
                            /\ chains'[c].err = "DiscardWriteZeroes"
                            /\ BadFlags(r, k)
                         \/ /\ chains'[c].pc = "done"
                            /\ chains'[c].err = "OutOfRange"
                            /\ ~BadFlags(r, k)
          /\ OpReturnStep(c, "write_zeroes") =>
                \/ chains'[c].pc = "io" /\ chains'[c].seg = chains[c].seg + 1
                \/ /\ chains'[c].pc = "done"
                   /\ chains'[c].err = "none"
                   /\ chains[c].seg = NSegs(chains[c].req)
                \/ /\ chains'[c].pc = "done"
                   /\ chains'[c].err \in {"DiscardWriteZeroes", "OutOfRange"}
                   /\ chains'[c].status = VIRTIO_BLK_S_IOERR]_vars

\* A WRITE_ZEROES of one segment with accepted flags failed with IOERR
\* after its write_zeroes_at.
C29_Witness ==
    \E c \in ChainIds :
        /\ Done(c)
        /\ IsSegRequest(c)
        /\ chains[c].req.type = VIRTIO_BLK_T_WRITE_ZEROES
        /\ NSegs(chains[c].req) = 1
        /\ BadSegs(chains[c].req) = {}
        /\ chains[c].nops = 1
        /\ chains[c].err = "DiscardWriteZeroes"
        /\ chains[c].status = VIRTIO_BLK_S_IOERR

\* C30: a chain with no writable byte fails with MissingStatus before
\* execute_request is called: the request takes no lock, issues no disk
\* operation and writes no status byte; the failure is logged, the chain is
\* put on the used ring once with used length 0 and the interrupt is
\* triggered; the worker keeps running.
C30_MissingStatus ==
    [][\A c \in ChainIds :
          chains[c].req.wlen = 0 =>
              /\ chains'[c].pc \in {"lock_disk", "lock_shared", "io"}
                    => chains[c].pc = chains'[c].pc
              /\ (~Done(c) /\ chains'[c].pc = "done") =>
                    /\ chains[c].pc = "new"
                    /\ chains'[c].err = "MissingStatus"
                    /\ chains'[c].checked = NoneU64
                    /\ chains'[c].nops = 0
                    /\ chains'[c].nstatus = 0
                    /\ chains'[c].logged = 1
                    /\ lockVars' = lockVars
                    /\ used'[chains[c].q] = Append(used[chains[c].q], <<c, 0>>)
                    /\ intr'[chains[c].q] = intr[chains[c].q] + 1
                    /\ wstate' = wstate]_vars

\* A chain with no writable byte is on the used ring with length 0.
C30_Witness ==
    \E c \in ChainIds :
        /\ Done(c)
        /\ chains[c].req.wlen = 0
        /\ chains[c].err = "MissingStatus"
        /\ chains[c].nstatus = 0
        /\ NUsed(c) = 1
        /\ \E i \in 1..Len(used[chains[c].q]) : used[chains[c].q][i] = <<c, 0>>
        /\ intr[chains[c].q] >= 1

\* Sequence a is the beginning of sequence b.
IsPrefix(a, b) == Len(a) <= Len(b) /\ \A i \in 1..Len(a) : a[i] = b[i]

\* C24: the messages the VCPU thread applied are the messages it took from
\* the channel, each once and in the order taken; outside the pass over a
\* collected batch, and until RunState(Exiting) is applied, every message
\* taken has been applied.
C24_TakenApplied ==
    /\ IsPrefix(applied, taken)
    /\ (vpc # "apply" /\ run_mode # "Exiting") => applied = taken

\* The result e of vcpu.run is an exit, not an error.
IsExit(e) == e \in RunResults \ {"EINTR", "EAGAIN", "EIO"}

\* The step in which vcpu.run returns and its result is dispatched.
RunStep == vpc = "run" /\ vpc' # "run"

\* The step in which vcpu_loop returns: a return of vcpu_fn that is not one of
\* its setup.
VcpuReturnStep == vpc \notin {"spawned", "returned"} /\ vpc' = "returned"

\* vcpu_loop returns state in this step.
Returns(state) == vpc' = "returned" /\ exit_state' = state

\* C26 as stated: vcpu_loop returns Stop for RunState(Exiting) and for
\* the exits Shutdown, SystemEventShutdown and SystemEventCrash, Reset for
\* SystemEventReset, Crash for FailEntry and for a disconnected channel;
\* every other exit leaves the loop running.
C26_ExitStateAsStated ==
    [][/\ (VcpuReturnStep /\ last_event' = "Exiting") => Returns("Stop")
       /\ (VcpuReturnStep /\ last_event' = "Disconnected") => Returns("Crash")
       /\ (RunStep /\ IsExit(last_event')) =>
             IF last_event' \in {"Shutdown", "SystemEventShutdown", "SystemEventCrash"}
             THEN Returns("Stop")
             ELSE IF last_event' = "SystemEventReset" THEN Returns("Reset")
             ELSE IF last_event' = "FailEntry" THEN Returns("Crash")
             ELSE vpc' = "clear" /\ exit_state' = "none"]_vars

\* C26: vcpu_loop returns Stop for RunState(Exiting) and for the exits
\* Shutdown, SystemEventShutdown and SystemEventCrash; Reset for
\* SystemEventReset; Crash for FailEntry, for a disconnected channel, for a
\* run error other than EINTR and EAGAIN, for a kick signal that cannot be
\* cleared and, with gdb, for a Debug exit that cannot be reported.  The
\* exits Sbi and RiscvCsr panic.  Every other exit leaves the loop running,
\* and vcpu_loop returns for no other reason.
C26_ExitState ==
    [][/\ VcpuReturnStep =>
             /\ last_event' = "Exiting" => Returns("Stop")
             /\ last_event' \in {"Disconnected", "ClearSignal"} => Returns("Crash")
             /\ last_event' \in {"Exiting", "Disconnected", "ClearSignal", "Shutdown",
                                 "SystemEventShutdown", "SystemEventCrash",
                                 "SystemEventReset", "FailEntry", "EIO", "Debug"}
       /\ RunStep =>
             IF last_event' \in {"Shutdown", "SystemEventShutdown", "SystemEventCrash"}
             THEN Returns("Stop")
             ELSE IF last_event' = "SystemEventReset" THEN Returns("Reset")
             ELSE IF last_event' \in {"FailEntry", "EIO"} THEN Returns("Crash")
             ELSE IF last_event' \in UnimplementedExits
             THEN vpc' = "panicked" /\ exit_state' = "none"
             ELSE IF last_event' = "Debug" /\ gdb
             THEN Returns("Crash") \/ (vpc' = "clear" /\ exit_state' = "none")
             ELSE vpc' = "clear" /\ exit_state' = "none"]_vars

\* vcpu_loop returned Stop on a SystemEventCrash exit.
C26_Witness ==
    /\ vpc = "returned"
    /\ last_event = "SystemEventCrash"
    /\ exit_state = "Stop"

\* C27: vcpu.run is entered, and wait_until_runnable before it, only while
\* the run mode is Running; with the mode Suspending or Breakpoint and the
\* channel empty the state loop goes on to recv, and the thread stays in
\* recv for as long as the channel is empty and the Sender exists.
C27_RunOnlyRunning ==
    /\ [](vpc \in {"wait", "run"} => run_mode = "Running")
    /\ [](vpc = "recv" => run_mode \in {"Suspending", "Breakpoint"})
    /\ []((vpc = "recv" /\ from_main_tube = <<>> /\ tube_open) => ~ENABLED Recv)
    /\ [][( /\ vpc = "try_recv"
            /\ vpc' # vpc
            /\ from_main_tube = <<>>
            /\ tube_open
            /\ run_mode \in {"Suspending", "Breakpoint"} ) => vpc' = "recv"]_vars

\* The thread, in Breakpoint mode, is blocked in recv on an empty channel.
C27_Witness ==
    /\ vpc = "recv"
    /\ run_mode = "Breakpoint"
    /\ from_main_tube = <<>>
    /\ tube_open
    /\ taken = <<>>

\* The message of kick i is in the channel.
InChannel(i) == \E j \in 1..Len(from_main_tube) : from_main_tube[j].id = i

\* The thread took the message of kick i from the channel.
Taken(i) == \E j \in 1..Len(taken) : taken[j] = i

\* The main thread delivers the signal and kicks the halted VCPUs of a kick
\* only once the message of that kick has been sent.
MessageFirst ==
    kick.pc \in {"signal", "halted"} => (InChannel(kick.n) \/ Taken(kick.n) \/ VcpuEnded)

\* C25 as stated: the message of a kick is sent before its signal and before
\* the halted VCPUs are kicked, and the VCPU thread takes the message of
\* every kick from the channel: it never ends with a message left there.
C25_NoLostKickAsStated ==
    /\ MessageFirst
    /\ VcpuEnded => from_main_tube = <<>>

\* C25: the message of a kick is sent before its signal and before the
\* halted VCPUs are kicked, and a message that is in the channel is
\* eventually taken from it by the VCPU thread, wherever the thread was
\* when the kick arrived, unless vcpu_loop ends first.
C25_NoLostKick ==
    /\ []MessageFirst
    /\ \A i \in 1..MaxKicks : InChannel(i) ~> (Taken(i) \/ VcpuEnded)

\* A kick got the running VCPU into the state loop, where it took the message.
C25_Witness ==
    /\ vpc = "apply"
    /\ interrupted_by_signal
    /\ run_mode = "Running"
    /\ messages # <<>>
    /\ Taken(1)

\* The step in which the request of chain c completes.
CompleteStep(c) == ~Done(c) /\ chains'[c].pc = "done"

\* C31: a chain is put at the end of the used ring of its queue in the step
\* in which its request completes, whatever the order in which the chains
\* were popped, and the ring changes in no other step; an in-flight request
\* of a running worker can complete, and a signalled queue can be drained,
\* whatever the other requests of the queue are doing.
C31_CompletionOrder ==
    /\ [][/\ \A c \in ChainIds :
                CompleteStep(c) =>
                    /\ Len(used'[chains[c].q]) = Len(used[chains[c].q]) + 1
                    /\ SubSeq(used'[chains[c].q], 1, Len(used[chains[c].q]))
                          = used[chains[c].q]
                    /\ used'[chains[c].q][Len(used'[chains[c].q])][1] = c
          /\ \A q \in Queues :
                used'[q] # used[q] => \E c \in ChainIds : CompleteStep(c) /\ chains[c].q = q
         ]_vars
    /\ [](\A c \in ChainIds :
             (chains[c].pc = "io" /\ Runs(Owner(chains[c].q)))
                => ENABLED DiskOpDone(c, TRUE, TRUE))
    /\ [](\A q \in Queues : (evt[q] /\ Runs(Owner(q))) => ENABLED HandleQueue(q))

\* On one queue the request popped second is on the used ring while the
\* request popped first still awaits its disk operation.
C31_Witness ==
    /\ chains[1].q = chains[2].q
    /\ chains[1].pc = "io"
    /\ Done(2)
    /\ Len(used[chains[2].q]) = 1
    /\ used[chains[2].q][1][1] = 2

\* C32: the step that writes the status byte of a chain also puts the chain
\* at the end of the used ring of its queue and triggers the interrupt of
\* that queue, so that no state lies between the three in which another
\* task of the worker could take a step: in every state a chain whose
\* status byte is written is on the used ring and its interrupt was raised.
C32_StatusUsedInterrupt ==
    /\ [][\A c \in ChainIds :
             chains'[c].nstatus # chains[c].nstatus =>
                 /\ chains'[c].nstatus = chains[c].nstatus + 1
                 /\ used'[chains[c].q] =
                       Append(used[chains[c].q], <<c, chains[c].req.wlen>>)
                 /\ intr'[chains[c].q] = intr[chains[c].q] + 1
                 /\ \A d \in ChainIds \ {c} : chains'[d] = chains[d]
                 /\ flusher' = flusher
                 /\ ctl' = ctl]_vars
    /\ [](\A c \in ChainIds :
             chains[c].nstatus >= 1 =>
                 /\ NUsed(c) = chains[c].nstatus
                 /\ intr[chains[c].q] >= Len(used[chains[c].q]))

\* A chain has its status byte, its used entry and its interrupt while
\* another request of the same worker awaits its disk operation.
C32_Witness ==
    \E c, d \in ChainIds :
        /\ Done(c)
        /\ chains[c].nstatus = 1
        /\ NUsed(c) = 1
        /\ intr[chains[c].q] = 1
        /\ chains[d].pc = "io"
        /\ Owner(chains[d].q) = Owner(chains[c].q)

\* The failure that ends worker w in this step, read from the task that is at
\* the failing await: "none" when no task of the worker is at one.
EndedBy(w) ==
    {FlushFailed("FsyncDisk") : x \in {y \in {w} : flusher[y] = "fsync"}}
    \cup {FlushFailed("FlushTimer") : x \in {y \in {w} : flusher[y] = "wait"}}
    \cup {ControlFailed("ReceivingCommand") :
              x \in {y \in {w} : y = CONTROL_WORKER /\ ctl.pc = "recv"}}
    \cup {ControlFailed("SendingResponse") :
              x \in {y \in {w} : y = CONTROL_WORKER /\ ctl.pc = "reply"}}
    \cup {ResampleFailed}

\* C33: a running worker returns Err only in a step where its flusher's
\* fsync or timer wait, its control task's receive or send, or its resample
\* task failed, and the message it returns names that task and error; it
\* returns Ok only after a kill; no step that completes a request ends it.
\* The flusher starts an fsync only from a timer expiry that found the flag
\* set.
C33_InfrastructureOnly ==
    [][\A w \in Workers :
          /\ (wstate[w] = "running" /\ wstate'[w] = "err")
                => /\ wmsg'[w] \in EndedBy(w)
                   /\ \A c \in ChainIds : Done(c) = Done(c)'
          /\ (wstate[w] = "running" /\ wstate'[w] = "ok")
                => kill[w] /\ wmsg'[w] = "none"
          /\ wstate'[w] = "running" => wmsg'[w] = "none"
          /\ (flusher[w] = "wait" /\ flusher'[w] \in {"lock", "fsync"})
                => timer[w] = "expired" /\ armed[w]
          /\ (flusher[w] # "fsync" /\ flusher'[w] = "fsync")
                => flusher[w] \in {"wait", "lock"}]_vars

\* A worker ended by a failed fsync of its flusher while the other worker,
\* which completed a request with IOERR, goes on.
C33_Witness ==
    /\ wstate[2] = "err"
    /\ wmsg[2] = FlushFailed("FsyncDisk")
    /\ wstate[1] = "running"
    /\ \E c \in ChainIds : Done(c) /\ chains[c].status = VIRTIO_BLK_S_IOERR

\* The step in which wait_until_runnable returns.
WaitStep == vpc = "wait" /\ vpc' # "wait"

\* C34: when vcpu.run fails with EINTR the flag interrupted_by_signal is
\* set and the iteration goes on to its end; with EAGAIN nothing of the
\* loop's state changes; with any other errno vcpu_loop returns Crash.  When
\* wait_until_runnable reports Interrupted the flag is set and the iteration
\* goes to its end without vcpu.run; otherwise vcpu.run is called with the
\* flag clear.  An iteration that starts with the flag set enters the state
\* loop.
C34_RunErrors ==
    [][/\ (RunStep /\ last_event' = "EINTR")
             => /\ interrupted_by_signal' /\ vpc' = "clear"
                /\ UNCHANGED <<run_mode, messages, exit_state, taken, applied>>
       /\ (RunStep /\ last_event' = "EAGAIN")
             => /\ vpc' = "clear"
                /\ UNCHANGED <<run_mode, interrupted_by_signal, messages, exit_state,
                               halted, taken, applied, signal_pending>>
       /\ (RunStep /\ last_event' = "EIO") => Returns("Crash")
       /\ RunStep => ~interrupted_by_signal
       /\ WaitStep => /\ halt_kick => interrupted_by_signal'
                      /\ interrupted_by_signal' <=> vpc' = "clear"
                      /\ ~interrupted_by_signal' <=> vpc' = "run"
       /\ (vpc = "top" /\ vpc' # "top")
             => IF interrupted_by_signal
                THEN vpc' = "try_recv" /\ interrupted_by_signal'
                ELSE TRUE]_vars

\* vcpu.run has just failed with EINTR on a VCPU that was running.
C34_Witness ==
    /\ vpc = "clear"
    /\ last_event = "EINTR"
    /\ interrupted_by_signal
    /\ run_mode = "Running"

\* The step that ends an iteration of the loop.
IterationEnds == vpc = "clear" /\ vpc' # "clear"

\* C35: an iteration that ends with interrupted_by_signal set either
\* leaves no kick pending (the signal cleared, or the immediate-exit flag
\* reset) and goes to the loop top with the flag still set, or, only where
\* hypervisor signals are in use, fails to clear the signal and vcpu_loop
\* returns Crash.  An iteration that ends with the flag clear touches neither.
C35_KickCleared ==
    [][IterationEnds =>
          IF interrupted_by_signal
          THEN \/ /\ vpc' = "top"
                  /\ ~signal_pending'
                  /\ interrupted_by_signal'
               \/ /\ use_hypervisor_signals
                  /\ Returns("Crash")
                  /\ last_event' = "ClearSignal"
          ELSE vpc' = "top" /\ UNCHANGED signal_pending]_vars

\* The loop top after an iteration that a kick interrupted while the signal
\* was pending: the signal is gone and the state loop comes next.
C35_Witness ==
    /\ vpc = "top"
    /\ interrupted_by_signal
    /\ ~signal_pending
    /\ use_hypervisor_signals
    /\ kick.n > 0

\* The final event the claim pairs with each ExitState.
EventFor(state) ==
    IF state = "Stop" THEN "Exit" ELSE IF state = "Reset" THEN "Reset" ELSE "Crash"

\* The VCPU thread is over: it sent its event and finished, or it panicked.
ThreadOver == vpc \in {"exited", "panicked"}

\* C36 as stated: vcpu_loop returns only Stop, Reset or Crash, and on
\* every path on which the thread ends it has sent exactly one final event,
\* Exit, Reset or Crash respectively, Exit after a setup failure.
C36_FinalEventAsStated ==
    /\ exit_state \in {"none", "Stop", "Reset", "Crash"}
    /\ Len(vm_evt) <= 1
    /\ ThreadOver => vm_evt = <<EventFor(exit_state)>>
    /\ (ThreadOver /\ last_event = "SetupFailed") => vm_evt = <<"Exit">>

\* C36: vcpu_loop returns only Stop, Reset or Crash, and on every path on
\* which vcpu_fn returns the thread sends exactly one final event, as its
\* last act: Exit, Reset or Crash respectively, Exit after a setup failure.
\* A thread that panics in vcpu_loop (the exits Sbi and RiscvCsr) has sent
\* no event.
C36_FinalEvent ==
    /\ exit_state \in {"none", "Stop", "Reset", "Crash"}
    /\ vpc = "exited" => vm_evt = <<EventFor(exit_state)>>
    /\ (vpc = "exited" /\ last_event = "SetupFailed") => vm_evt = <<"Exit">>
    /\ vpc # "exited" => vm_evt = <<>>
    /\ vpc = "panicked" => last_event \in UnimplementedExits /\ exit_state = "none"

\* The thread has ended after vcpu.run failed with an errno other than EINTR
\* and EAGAIN: it sent Crash.
C36_Witness ==
    /\ vpc = "exited"
    /\ last_event = "EIO"
    /\ exit_state = "Crash"
    /\ vm_evt = <<"Crash">>

\* Worker w has an fsync under way: a FLUSH request of its queues is at its
\* fsync, or its flusher has cleared the flag and is at, or about to start,
\* its fsync.
FsyncInProgress(w) ==
    \/ flusher[w] \in {"lock", "fsync"}
    \/ \E c \in ChainIds : /\ Owner(chains[c].q) = w
                           /\ chains[c].pc = "io"
                           /\ chains[c].op = "fsync"

\* C37: while a worker runs with its flag clear and no fsync under way,
\* every write of an OUT request of its queues that completed with OK has
\* been flushed by an fsync that started after the write completed.
C37_NoUnflushedWrite ==
    \A w \in Workers :
        (wstate[w] = "running" /\ ~armed[w] /\ ~FsyncInProgress(w)) =>
            \A c \in cache.dirty : Owner(chains[c].q) = w => chains[c].err # "none"

\* C38: while a worker runs with its flag set, its flush timer is armed
\* with an expiry to come, or has expired and flush_disk has yet to see it.
C38_ArmedHasTimer ==
    \A w \in Workers :
        (wstate[w] = "running" /\ armed[w]) => timer[w] \in {"set", "expired"}

\* C39: while resize is not running, the published disk_size is the length
\* the backing file was last given.
C39_SizeIsFileLength ==
    ctl.pc \notin {"locked", "allocate", "publish"} => disk_size = file_len

\* The step in which activate succeeds on a device that was activated before.
ReactivateStep == nactivate >= 1 /\ nactivate' = nactivate + 1 /\ act_ret' = "ok"

\* C40: a re-activation gives the workers the configuration the workers of
\* the previous activation had: the ID GET_ID serves (here, whether there is
\* one), the read-only flag, and the sparse flag of the device.
C40_ConfigurationKept ==
    [][ReactivateStep =>
          /\ id_set' = id_set
          /\ read_only' = read_only
          /\ sparse' = dev_sparse
          /\ dev_sparse' = dev_sparse]_vars

====
